---- MODULE Spec2Model ----
(***************************************************************************)
(* Verification model of meta-mystia-manager: the network retry loop,      *)
(* the atomic file placement primitive, the archive extractor, the         *)
(* version consolidator and the download / install orchestration.          *)
(***************************************************************************)
EXTENDS Integers, Sequences, FiniteSets, TLC

VARIABLES
    \* with_retry (net.rs)
    plan,       \* outcome of the operation at its n-th invocation
    rpc,        \* per run: position in with_retry
    attempt,    \* per run: loop variable `attempt`
    hist,       \* per run: outcomes of the invocations made so far
    notes,      \* per run: delay_secs passed to ui.network_retrying
    slept,      \* per run: durations slept
    rresult,    \* per run: value returned by with_retry
    \* atomic_rename_or_copy (file_ops.rs)
    ac,         \* configuration of the running call
    fs0,        \* the directory as it was when the call started
    \* Extractor::extract_zip_safe_with_exclusions (extractor.rs)
    archive,    \* the entries of the ZIP, in archive order
    excl,       \* exclude_patterns
    xi,         \* loop variable `i` (1-based)
    xpc,        \* "loop", "ok" (returned Ok) or "err" (returned Err)
    xfs,        \* the destination tree
    xfs0,       \* the destination tree when extract was called
    extracted,  \* extracted_files
    \* Upgrader::consolidate_installed_by_pattern (upgrader.rs)
    cfs,        \* the game directory
    cfs0,       \* the game directory when consolidate was called
    cpc,        \* "start", "backup" or "done"
    cqueue,     \* to_backup, what is left of it
    clatest,    \* latest_version_str and latest
    cresult,    \* value returned
    cwarned,    \* file names passed to ui.upgrade_warn_unparse_version
    cfailed,    \* paths whose backup error went to ui.upgrade_backup_failed
    cbackups,   \* <<path, backup>> of the backups that returned Ok
    \* Downloader::download_metamystia (downloader.rs)
    dworld,     \* per source: outcome of its operation at the n-th invocation
    dasset,     \* the release JSON lists an asset named MetaMystia-v*.dll
    dsrc,       \* the source being tried: "lookup", "github" or "mirror"
    dpc,        \* "call", "notify", "returned" or "done"
    dattempt,   \* loop variable `attempt` of the running with_retry
    dlog,       \* invocations (by source) and Ui notifications, in order
    dnotes,     \* per source: delay_secs passed to ui.network_retrying
    dret,       \* per source: value its with_retry returned
    dresult,    \* value returned by download_metamystia
    \* Installer::install (installer.rs)
    ifs,        \* the game directory
    ifs0,       \* the game directory when install was called
    ipc,        \* "run", "drop" (returning, guard held) or "done"
    ipos,       \* the step install is at
    icleanup,   \* cleanup_before_deploy
    iwant,      \* install_resourceex
    iasked,     \* the answer to install_ask_install_resourceex: "yes", "no", or "none" when not asked
    ishow,      \* show_bepinex_console
    iprimary,   \* bepinex_from_primary
    iguard,     \* _temp_guard exists
    isrc,       \* the source of the current artifact being tried
    itry,       \* tries made with that source
    ifaults,    \* local file operations that failed so far
    idone,      \* the artifacts downloaded
    iresult,    \* value returned by install
    \* execute_deletion, delete_file, delete_directory (file_ops.rs)
    efiles,     \* the paths passed to execute_deletion
    eworld,     \* per path: whether it exists
    ei,         \* loop index into efiles (1-based)
    epc,        \* "pick", "exists", "remove", "verify", "perm" or "done"
    eobs,       \* what the current call saw: existence at its check, at its delete call and after it; which delete call returned Ok
    eresults,   \* the DeletionResults pushed so far
    \* Uninstaller::uninstall (uninstaller.rs)
    uexisting,  \* existing_files: what scan_existing_files returned
    uelevated,  \* what is_elevated() returns for this process
    uall,       \* all_results
    uinuse,     \* in_use_failures of the current pass
    uperm,      \* perm_failures of the current pass
    uother,     \* other_failures of the current pass
    ustill,     \* still_in_use
    uattempt,   \* attempt of the automatic retry loop
    ufailures,  \* failed results execute_deletion has returned so far
    upc,        \* position in uninstall
    ulog,       \* what the user saw and what was attempted, in order
    uresult,    \* what uninstall returned, or how the process ended
    \* Upgrader::upgrade (upgrader.rs)
    ginstalled, \* what get_installed_versions returns: the dll and the resourceex version string
    gremote,    \* the dll and zip versions of the remote version info
    gpc,        \* position in upgrade
    glog,       \* downloads and deployments attempted, in order
    gresult,    \* value returned by upgrade
    \* run_shutdown, register_cleanup, the signal handlers (shutdown.rs) and main (main.rs)
    hstarted,   \* SHUTDOWN_STARTED
    hcallbacks, \* CALLBACKS
    hpc,        \* per thread: where it is
    htaken,     \* per thread: `callbacks` of its run_shutdown call
    hcb,        \* per callback: "unregistered", "registered", "spawned" or "finished"
    hinvoked,   \* per callback: how many times it was invoked
    hby,        \* per callback: the thread whose run_shutdown spawned it
    horder,     \* the threads in the order of their swap on SHUTDOWN_STARTED
    htimedout,  \* the deadline of the running cleanup has passed
    hsignal,    \* an interrupt signal has arrived
    hexited,    \* "no", or the thread that ended the process
    \* the copy loop of Downloader::write_response_to_file (downloader.rs)
    tlimit,     \* rate_limit
    tdownloaded, \* downloaded, in bytes
    tnow,       \* time since `start`, in milliseconds
    treads,     \* reads that returned data so far
    tpc,        \* "read", "limit", "done" or "failed"
    \* the copy loop of write_response_to_file fed by a source that stalls (downloader.rs)
    bdownloaded, \* downloaded, in bytes
    bnow,       \* time since `start`, in milliseconds
    breads,     \* reads that returned data so far
    bstalls,    \* reads that had to wait for the source so far
    bpc,        \* "read", "limit" or "done"
    blog,       \* per read that returned data: when it returned and how many bytes
    \* one interactive run of the program and its Downloader instances (main.rs, downloader.rs)
    scache,     \* per Downloader instance: cached_version, 0 for None
    sremote,    \* the version metadata the server publishes now
    spc,        \* where the run is
    sinst,      \* the Downloader instance the current call is made on
    spurpose,   \* which caller needs the share code: "manager", "step" or "fallback"
    stry,       \* the attempt number of with_retry in the current call
    sreq,       \* the requests sent so far: kind, instance, outcome
    sgot,       \* the values get_version_info returned with Ok so far
    sresult,    \* the result of the run
    \* one call of backup_with_index (file_ops.rs)
    kfs0,       \* the file system when the call starts
    kfs,        \* the file system
    kpath,      \* the argument path
    ksuffix,    \* the argument ext_suffix
    kpc,        \* "call" or "done"
    kres,       \* what the call returned: res and backup
    \* scan_existing_files in both modes over one game directory (file_ops.rs, config.rs)
    zfs,        \* the game directory
    zi,         \* per mode: the index of the next target
    zfound,     \* per mode: existing_files
    \* Upgrader::cleanup_old_files after a consolidation (upgrader.rs, file_ops.rs)
    lfs,        \* the file system
    lpc,        \* "wait", "glob", "remove" or "done"
    lpass,      \* which directory is cleaned: "dll" or "zip"
    lqueue,     \* the entries of the glob not visited yet
    lmatched,   \* every entry a glob of this call yielded
    lremoved,   \* RemoveGlobResult.removed of the current pass
    lfailed,    \* RemoveGlobResult.failed of the current pass
    lattempts,  \* every removal attempted, in order: path and outcome
    lreported,  \* what went to ui.upgrade_deleted and ui.upgrade_delete_failed
    lresult,    \* what cleanup_old_files returned
    \* Uninstaller::uninstall under the non-interactive CLI Ui (uninstaller.rs, cli_ui.rs)
    yexisting,  \* existing_files
    yelevated,  \* what is_elevated() returned
    yall,       \* all_results
    yperm,      \* perm_failures
    yother,     \* other_failures
    ystill,     \* still_in_use
    yattempt,   \* the attempt of the automatic retry
    ypc,        \* where uninstall is
    yresult,    \* what uninstall returned
    \* the plugin DLL part of Upgrader::upgrade on the file system (upgrader.rs:294-381)
    nfs0,       \* the file system when upgrade found the installed DLL
    nfs,        \* the file system
    npc,        \* where upgrade is
    nqueue,     \* to_backup, the paths not backed up yet
    nbackups,   \* backup_paths
    nreported,  \* paths whose backup error went to ui.upgrade_backup_failed
    nresult,    \* what upgrade returned
    \* one VersionInfo and one call of an accessor (model.rs)
    bep_in_ex,  \* the encoded bepInEx field, a sequence of characters
    mcall,      \* "none", "bepinex_filename" or "bepinex_version"
    mresult,    \* what the accessor returned
    \* one retried network operation (net.rs) or one run of the automatic
    \* retry loop of the uninstaller (uninstaller.rs), with the clock
    wkind,      \* "network" or "uninstall"
    wpc,        \* "call", "retry", "loop" or "done"
    wattempt,   \* the loop variable `attempt`
    wstill,     \* the number of paths still in use
    wsleeps,    \* every call of sleep so far: who slept and for how long
    wresult,    \* "none", "Ok" or "Err"
    \* one call of backup_with_index (file_ops.rs) step by step, next to
    \* another process that creates files
    jfs,        \* the file system
    jkept,      \* the files the call did not make: path -> content
    jidx,       \* the local `idx`
    jpc,        \* "enter", "check", "move" or "done"
    jfailed,    \* how many calls of atomic_rename_or_copy failed
    jmade,      \* how many files the other process created
    jres        \* what the call returned: res and backup

retryVars == <<plan, rpc, attempt, hist, notes, slept, rresult>>
atomicVars == <<ac, fs0>>
extractVars == <<archive, excl, xi, xpc, xfs, xfs0, extracted>>
consolidateVars == <<cfs, cfs0, cpc, cqueue, clatest, cresult, cwarned, cfailed, cbackups>>
downloadVars == <<dworld, dasset, dsrc, dpc, dattempt, dlog, dnotes, dret, dresult>>
installVars ==
    <<ifs, ifs0, ipc, ipos, icleanup, iwant, iasked, ishow, iprimary, iguard, isrc, itry, ifaults,
      idone, iresult>>
deletionVars == <<efiles, eworld, ei, epc, eobs, eresults>>
uninstallVars == <<uexisting, uelevated, uall, uinuse, uperm, uother, ustill, uattempt, ufailures, upc, ulog, uresult>>
upgradeVars == <<ginstalled, gremote, gpc, glog, gresult>>
shutdownVars == <<hstarted, hcallbacks, hpc, htaken, hcb, hinvoked, hby, horder, htimedout, hsignal, hexited>>
rateLimitVars == <<tlimit, tdownloaded, tnow, treads, tpc>>
burstVars == <<bdownloaded, bnow, breads, bstalls, bpc, blog>>
sessionVars == <<scache, sremote, spc, sinst, spurpose, stry, sreq, sgot, sresult>>
backupVars == <<kfs0, kfs, kpath, ksuffix, kpc, kres>>
scanVars == <<zfs, zi, zfound>>
cleanupVars == <<lfs, lpc, lpass, lqueue, lmatched, lremoved, lfailed, lattempts, lreported, lresult>>
cliVars == <<yexisting, yelevated, yall, yperm, yother, ystill, yattempt, ypc, yresult>>
dllUpgradeVars == <<nfs0, nfs, npc, nqueue, nbackups, nreported, nresult>>
versionInfoVars == <<bep_in_ex, mcall, mresult>>
backoffVars == <<wkind, wpc, wattempt, wstill, wsleeps, wresult>>
raceVars == <<jfs, jkept, jidx, jpc, jfailed, jmade, jres>>
vars == <<retryVars, atomicVars, extractVars, consolidateVars, downloadVars, installVars, deletionVars, uninstallVars, upgradeVars, shutdownVars, rateLimitVars, burstVars, sessionVars, backupVars, scanVars, cleanupVars, cliVars, dllUpgradeVars, versionInfoVars, backoffVars, raceVars>>

\* what each component leaves alone
raceFrame == <<retryVars, atomicVars, extractVars, consolidateVars, downloadVars, installVars, deletionVars, uninstallVars, upgradeVars, shutdownVars, rateLimitVars, burstVars, sessionVars, backupVars, scanVars, cleanupVars, cliVars, dllUpgradeVars, versionInfoVars, backoffVars>>
backoffFrame == <<retryVars, atomicVars, extractVars, consolidateVars, downloadVars, installVars, deletionVars, uninstallVars, upgradeVars, shutdownVars, rateLimitVars, burstVars, sessionVars, backupVars, scanVars, cleanupVars, cliVars, dllUpgradeVars, versionInfoVars, raceVars>>
versionInfoFrame == <<retryVars, atomicVars, extractVars, consolidateVars, downloadVars, installVars, deletionVars, uninstallVars, upgradeVars, shutdownVars, rateLimitVars, burstVars, sessionVars, backupVars, scanVars, cleanupVars, cliVars, dllUpgradeVars, backoffVars, raceVars>>
dllUpgradeFrame == <<retryVars, atomicVars, extractVars, consolidateVars, downloadVars, installVars, deletionVars, uninstallVars, upgradeVars, shutdownVars, rateLimitVars, burstVars, sessionVars, backupVars, scanVars, cleanupVars, cliVars, versionInfoVars, backoffVars, raceVars>>
cliFrame == <<retryVars, atomicVars, extractVars, consolidateVars, downloadVars, installVars, deletionVars, uninstallVars, upgradeVars, shutdownVars, rateLimitVars, burstVars, sessionVars, backupVars, scanVars, cleanupVars, dllUpgradeVars, versionInfoVars, backoffVars, raceVars>>
cleanupFrame == <<retryVars, atomicVars, extractVars, consolidateVars, downloadVars, installVars, deletionVars, uninstallVars, upgradeVars, shutdownVars, rateLimitVars, burstVars, sessionVars, backupVars, scanVars, cliVars, dllUpgradeVars, versionInfoVars, backoffVars, raceVars>>
scanFrame == <<retryVars, atomicVars, extractVars, consolidateVars, downloadVars, installVars, deletionVars, uninstallVars, upgradeVars, shutdownVars, rateLimitVars, burstVars, sessionVars, backupVars, cleanupVars, cliVars, dllUpgradeVars, versionInfoVars, backoffVars, raceVars>>
backupFrame == <<retryVars, atomicVars, extractVars, consolidateVars, downloadVars, installVars, deletionVars, uninstallVars, upgradeVars, shutdownVars, rateLimitVars, burstVars, sessionVars, scanVars, cleanupVars, cliVars, dllUpgradeVars, versionInfoVars, backoffVars, raceVars>>
sessionFrame == <<retryVars, atomicVars, extractVars, consolidateVars, downloadVars, installVars, deletionVars, uninstallVars, upgradeVars, shutdownVars, rateLimitVars, burstVars, backupVars, scanVars, cleanupVars, cliVars, dllUpgradeVars, versionInfoVars, backoffVars, raceVars>>
burstFrame == <<retryVars, atomicVars, extractVars, consolidateVars, downloadVars, installVars, deletionVars, uninstallVars, upgradeVars, shutdownVars, rateLimitVars, sessionVars, backupVars, scanVars, cleanupVars, cliVars, dllUpgradeVars, versionInfoVars, backoffVars, raceVars>>
rateLimitFrame == <<retryVars, atomicVars, extractVars, consolidateVars, downloadVars, installVars, deletionVars, uninstallVars, upgradeVars, shutdownVars, burstVars, sessionVars, backupVars, scanVars, cleanupVars, cliVars, dllUpgradeVars, versionInfoVars, backoffVars, raceVars>>
shutdownFrame == <<retryVars, atomicVars, extractVars, consolidateVars, downloadVars, installVars, deletionVars, uninstallVars, upgradeVars, rateLimitVars, burstVars, sessionVars, backupVars, scanVars, cleanupVars, cliVars, dllUpgradeVars, versionInfoVars, backoffVars, raceVars>>
upgradeFrame == <<retryVars, atomicVars, extractVars, consolidateVars, downloadVars, installVars, deletionVars, uninstallVars, shutdownVars, rateLimitVars, burstVars, sessionVars, backupVars, scanVars, cleanupVars, cliVars, dllUpgradeVars, versionInfoVars, backoffVars, raceVars>>
uninstallFrame == <<retryVars, atomicVars, extractVars, consolidateVars, downloadVars, installVars, deletionVars, upgradeVars, shutdownVars, rateLimitVars, burstVars, sessionVars, backupVars, scanVars, cleanupVars, cliVars, dllUpgradeVars, versionInfoVars, backoffVars, raceVars>>
deletionFrame == <<retryVars, atomicVars, extractVars, consolidateVars, downloadVars, installVars, uninstallVars, upgradeVars, shutdownVars, rateLimitVars, burstVars, sessionVars, backupVars, scanVars, cleanupVars, cliVars, dllUpgradeVars, versionInfoVars, backoffVars, raceVars>>
retryFrame == <<atomicVars, extractVars, consolidateVars, downloadVars, installVars, deletionVars, uninstallVars, upgradeVars, shutdownVars, rateLimitVars, burstVars, sessionVars, backupVars, scanVars, cleanupVars, cliVars, dllUpgradeVars, versionInfoVars, backoffVars, raceVars>>
atomicFrame == <<retryVars, extractVars, consolidateVars, downloadVars, installVars, deletionVars, uninstallVars, upgradeVars, shutdownVars, rateLimitVars, burstVars, sessionVars, backupVars, scanVars, cleanupVars, cliVars, dllUpgradeVars, versionInfoVars, backoffVars, raceVars>>
extractFrame == <<retryVars, atomicVars, consolidateVars, downloadVars, installVars, deletionVars, uninstallVars, upgradeVars, shutdownVars, rateLimitVars, burstVars, sessionVars, backupVars, scanVars, cleanupVars, cliVars, dllUpgradeVars, versionInfoVars, backoffVars, raceVars>>
consolidateFrame == <<retryVars, atomicVars, extractVars, downloadVars, installVars, deletionVars, uninstallVars, upgradeVars, shutdownVars, rateLimitVars, burstVars, sessionVars, backupVars, scanVars, cleanupVars, cliVars, dllUpgradeVars, versionInfoVars, backoffVars, raceVars>>
installFrame == <<retryVars, atomicVars, extractVars, consolidateVars, downloadVars, deletionVars, uninstallVars, upgradeVars, shutdownVars, rateLimitVars, burstVars, sessionVars, backupVars, scanVars, cleanupVars, cliVars, dllUpgradeVars, versionInfoVars, backoffVars, raceVars>>
downloadFrame == <<retryVars, atomicVars, extractVars, consolidateVars, installVars, deletionVars, uninstallVars, upgradeVars, shutdownVars, rateLimitVars, burstVars, sessionVars, backupVars, scanVars, cleanupVars, cliVars, dllUpgradeVars, versionInfoVars, backoffVars, raceVars>>

(***************************************************************************)
(* Retry policy (src/src/config.rs, NetworkRetryConfig::default)           *)
(***************************************************************************)
Attempts == 3
BaseDelaySecs == 5
Multiplier == 2
MaxDelaySecs == 15

Min(a, b) == IF a < b THEN a ELSE b

RECURSIVE Pow(_, _)
Pow(b, n) == IF n = 0 THEN 1 ELSE b * Pow(b, n - 1)

\* the delay with the exponent counted from one
RetryDelayFromOne(att) == Min(BaseDelaySecs * Pow(Multiplier, att + 1), MaxDelaySecs)

\* net.rs:22-23  raw = base * mult^attempt ; delay = ceil(min(raw, max)).
\* The configured values are whole numbers, so raw is whole and ceil
\* leaves it as it is.
RetryDelay(att) == Min(BaseDelaySecs * Pow(Multiplier, att), MaxDelaySecs)

(***************************************************************************)
(* with_retry (src/src/net.rs:12-52).  Two runs of the loop are kept side  *)
(* by side: both are driven by the same sequence of operation outcomes     *)
(* (plan) and each has its own Ui, so that the effect of the notification  *)
(* callback on the loop can be compared between runs.                      *)
(***************************************************************************)
Runs == {1, 2}

\* outcome of the n-th invocation of the operation
OkOf(n) == [tag |-> "Ok", by |-> n]
ErrOf(n) == [tag |-> "Err", by |-> n]
\* the error a Ui callback returns (propagated by `?`)
UiErr == [tag |-> "Err", by |-> 0]
NoResult == [tag |-> "None", by |-> 0]

Plans == [1..Attempts -> {"ok", "fail"}]

Invoke(p, n) == IF p[n] = "ok" THEN OkOf(n) ELSE ErrOf(n)

\* net.rs:19-47 the three arms of `match f()`
RetryMatchNoNotify(outcome, att) ==
    IF outcome.tag = "Ok" THEN "return"
    ELSE IF att < Attempts - 1 THEN "sleep"
    ELSE "return"

RetryMatchAlways(outcome, att) ==
    IF outcome.tag = "Ok" THEN "return"
    ELSE IF att < Attempts THEN "notify"
    ELSE "return"

RetryMatch(outcome, att) ==
    IF outcome.tag = "Ok" THEN "return"
    ELSE IF att < Attempts - 1 THEN "notify"
    ELSE "return"

RetryInit ==
    /\ plan \in Plans
    /\ rpc = [i \in Runs |-> "call"]
    /\ attempt = [i \in Runs |-> 0]
    /\ hist = [i \in Runs |-> <<>>]
    /\ notes = [i \in Runs |-> <<>>]
    /\ slept = [i \in Runs |-> <<>>]
    /\ rresult = [i \in Runs |-> NoResult]

\* net.rs:19 `match f()` with the arms Ok(v) => return, Err(e) => return
RetryCall(i) ==
    /\ rpc[i] = "call"
    /\ LET n == Len(hist[i]) + 1
           o == Invoke(plan, n)
           arm == RetryMatch(o, attempt[i])
       IN /\ hist' = [hist EXCEPT ![i] = Append(@, o)]
          /\ IF arm = "return"
             THEN /\ rpc' = [rpc EXCEPT ![i] = "done"]
                  /\ rresult' = [rresult EXCEPT ![i] = o]
             ELSE /\ rpc' = [rpc EXCEPT ![i] = arm]
                  /\ rresult' = rresult
    /\ UNCHANGED <<plan, attempt, notes, slept, retryFrame>>

\* net.rs:25-31 ui.network_retrying(..)? : an Err of the callback is returned
RetryNotify(i) ==
    /\ rpc[i] = "notify"
    /\ notes' = [notes EXCEPT ![i] = Append(@, RetryDelay(attempt[i]))]
    /\ \E cb \in {"ok", "err"} :
          IF cb = "ok"
          THEN /\ rpc' = [rpc EXCEPT ![i] = "sleep"]
               /\ rresult' = rresult
          ELSE /\ rpc' = [rpc EXCEPT ![i] = "done"]
               /\ rresult' = [rresult EXCEPT ![i] = UiErr]
    /\ UNCHANGED <<plan, attempt, hist, slept, retryFrame>>

\* net.rs:42 sleep, then the next iteration of `for attempt in 0..attempts`;
\* net.rs:51 unreachable!() when the range is exhausted
RetrySleep(i) ==
    /\ rpc[i] = "sleep"
    /\ slept' = [slept EXCEPT ![i] = Append(@, RetryDelay(attempt[i]))]
    /\ attempt' = [attempt EXCEPT ![i] = @ + 1]
    /\ rpc' = [rpc EXCEPT ![i] = IF attempt[i] + 1 < Attempts THEN "call" ELSE "unreachable"]
    /\ UNCHANGED <<plan, hist, notes, rresult, retryFrame>>

(***************************************************************************)
(* File system.  A path is the sequence of its components and a           *)
(* component is the sequence of its dot-separated segments                 *)
(* (<<<<"BepInEx">>, <<"core">>, <<"a", "dll">>>> is BepInEx/core/a.dll).   *)
(* The file system is a function from the paths that exist to their        *)
(* content.  Content is an identity plus the number of chunks written: a   *)
(* file is complete when len = FileChunks.                                 *)
(***************************************************************************)
FileChunks == 2
MaxLeftover == 1

Front(s) == SubSeq(s, 1, Len(s) - 1)
Last(s) == s[Len(s)]

\* std::path::Path::with_extension: the last segment of a dotted file name
\* is replaced by the (possibly dotted) extension; a name without a dot gets
\* the extension appended
NameWithExtension(name, e) == (IF Len(name) > 1 THEN Front(name) ELSE name) \o e
WithExtension(p, e) == Front(p) \o <<NameWithExtension(Last(p), e)>>

\* format!("tmp{}", idx) / format!("dl.tmp{}", idx)
TmpSuffix == <<"tmp1", "tmp2", "tmp3", "tmp4">>
TmpExt(idx) == IF idx = 0 THEN <<"tmp">> ELSE <<TmpSuffix[idx]>>

Exists(fs, p) == p \in DOMAIN fs
Remove(fs, p) == [q \in DOMAIN fs \ {p} |-> fs[q]]
Put(fs, p, c) == [q \in DOMAIN fs \cup {p} |-> IF q = p THEN c ELSE fs[q]]
Complete(id) == [id |-> id, len |-> FileChunks]
Absent == [id |-> "absent", len |-> 0]
ContentAt(fs, p) == IF Exists(fs, p) THEN fs[p] ELSE Absent
Dir == [id |-> "dir", len |-> 0]
EmptyFs == [q \in {} |-> Absent]

\* Path::starts_with: component-wise prefix
StartsWith(p, pre) == Len(p) >= Len(pre) /\ SubSeq(p, 1, Len(pre)) = pre
Ancestors(p) == { SubSeq(p, 1, k) : k \in 1..Len(p) }

\* std::fs::create_dir_all(p): fails when a component exists as a file,
\* otherwise every missing component becomes a directory
CanMkdirAll(fs, p) == \A q \in Ancestors(p) : Exists(fs, q) => fs[q] = Dir
MkdirAll(fs, p) ==
    [q \in DOMAIN fs \cup Ancestors(p) |-> IF q \in DOMAIN fs THEN fs[q] ELSE Dir]

(***************************************************************************)
(* atomic_rename_or_copy (src/src/file_ops.rs:43-84) as a step relation    *)
(* on a configuration [pc, fs, src, dst, tmp, n, res].                     *)
(***************************************************************************)
\* file_ops.rs:51-56 first of dst.tmp, dst.tmp1, ... that does not exist
RECURSIVE ProbeTmp(_, _, _)
ProbeTmp(fs, dst, idx) ==
    IF Exists(fs, WithExtension(dst, TmpExt(idx)))
    THEN ProbeTmp(fs, dst, idx + 1)
    ELSE WithExtension(dst, TmpExt(idx))

AtomicTmpPathInPlace(fs, dst) == dst

AtomicTmpPath(fs, dst) == ProbeTmp(fs, dst, 0)

AtomicStart(fs, src, dst) ==
    [pc |-> "mkdir", fs |-> fs, src |-> src, dst |-> dst, tmp |-> dst, n |-> 0, res |-> "none"]

\* std::fs::rename(from, to): atomic; fails without effect
RenameOk(fs, from, to) == Put(Remove(fs, from), to, fs[from])

AtomicStep(c) ==
    CASE c.pc = "mkdir" ->
            \* file_ops.rs:44-46 create_dir_all(parent)?
            (IF CanMkdirAll(c.fs, Front(c.dst))
             THEN { [c EXCEPT !.pc = "rename", !.fs = MkdirAll(c.fs, Front(c.dst))] }
             ELSE {})
            \cup { [c EXCEPT !.pc = "done", !.res = "err"] }
      [] c.pc = "rename" ->
            \* file_ops.rs:48-50
            (IF Exists(c.fs, c.src)
             THEN { [c EXCEPT !.pc = "done", !.res = "ok", !.fs = RenameOk(c.fs, c.src, c.dst)] }
             ELSE {})
            \cup { [c EXCEPT !.pc = "copy", !.tmp = AtomicTmpPath(c.fs, c.dst)] }
      [] c.pc = "copy" ->
            \* file_ops.rs:58-63 std::fs::copy(src, tmp)?: chunk by chunk, an
            \* error leaves what was written so far
            IF ~Exists(c.fs, c.src)
            THEN { [c EXCEPT !.pc = "done", !.res = "err"] }
            ELSE IF c.n = c.fs[c.src].len
            THEN { [c EXCEPT !.pc = "rename2",
                             !.fs = Put(c.fs, c.tmp, [id |-> c.fs[c.src].id, len |-> c.n])] }
            ELSE { [c EXCEPT !.n = c.n + 1,
                             !.fs = Put(c.fs, c.tmp, [id |-> c.fs[c.src].id, len |-> c.n])],
                   [c EXCEPT !.pc = "done", !.res = "err",
                             !.fs = Put(c.fs, c.tmp, [id |-> c.fs[c.src].id, len |-> c.n])] }
      [] c.pc = "rename2" ->
            \* file_ops.rs:69-80
            { [c EXCEPT !.pc = "rmsrc", !.fs = RenameOk(c.fs, c.tmp, c.dst)],
              [c EXCEPT !.pc = "rmtmp"] }
      [] c.pc = "rmsrc" ->
            \* file_ops.rs:71 let _ = remove_file(src)
            { [c EXCEPT !.pc = "done", !.res = "ok", !.fs = Remove(c.fs, c.src)],
              [c EXCEPT !.pc = "done", !.res = "ok"] }
      [] c.pc = "rmtmp" ->
            \* file_ops.rs:75 let _ = remove_file(tmp)
            { [c EXCEPT !.pc = "done", !.res = "err", !.fs = Remove(c.fs, c.tmp)],
              [c EXCEPT !.pc = "done", !.res = "err"] }
      [] OTHER -> {}

\* every configuration in which a call started in c can return
RECURSIVE AtomicOutcomes(_)
AtomicOutcomes(c) ==
    IF c.pc = "done" THEN {c}
    ELSE UNION { AtomicOutcomes(d) : d \in AtomicStep(c) }

\* the (src, dst) pairs the callers pass: extractor.rs:152,185 (dst.tmp, dst),
\* downloader.rs:245,306 (dst.dl.tmp, dst), file_ops.rs:97,107 (path, path.dll.old)
Target == <<<<"f", "dll">>>>
CallShapes ==
    { [src |-> WithExtension(Target, <<"tmp">>), dst |-> Target],
      [src |-> WithExtension(Target, <<"dl", "tmp">>), dst |-> Target],
      [src |-> Target, dst |-> WithExtension(Target, <<"dll", "old">>)] }

LeftoverNames(dst) == { WithExtension(dst, TmpExt(i)) : i \in 0..MaxLeftover }

AtomicInit ==
    \E sh \in CallShapes, srcThere \in BOOLEAN, dstThere \in BOOLEAN :
    \E left \in SUBSET (LeftoverNames(sh.dst) \ {sh.src}) :
        LET names == left \cup (IF srcThere THEN {sh.src} ELSE {})
                          \cup (IF dstThere THEN {sh.dst} ELSE {})
            f == [q \in names |->
                    IF q = sh.src THEN Complete("new")
                    ELSE IF q = sh.dst THEN Complete("old")
                    ELSE [id |-> "junk", len |-> 1]]
        IN /\ fs0 = f
           /\ ac = AtomicStart(f, sh.src, sh.dst)

AtomicRenameOrCopy ==
    /\ \E d \in AtomicStep(ac) : ac' = d
    /\ UNCHANGED <<fs0, atomicFrame>>

(***************************************************************************)
(* Extractor (src/src/extractor.rs)                                        *)
(***************************************************************************)
MaxEntries == 3

RootDir == <<"/">>
ParentDir == <<"..">>

\* extractor.rs:13-23
IsAbsolute(path) == path # <<>> /\ path[1] = RootDir
IsSafePathNoParentCheck(path) ==
    /\ ~IsAbsolute(path)
    /\ ~\E k \in 1..Len(path) : path[k] = RootDir

IsSafePath(path) ==
    /\ ~IsAbsolute(path)
    /\ ~\E k \in 1..Len(path) : path[k] \in {ParentDir, RootDir}

\* zip::read::ZipFile::enclosed_name (extractor.rs:78): None for a root
\* component or when a `..` climbs above the archive root
RECURSIVE Encloses(_, _)
Encloses(path, depth) ==
    IF path = <<>> THEN TRUE
    ELSE IF Head(path) = RootDir THEN FALSE
    ELSE IF Head(path) = ParentDir
         THEN depth > 0 /\ Encloses(Tail(path), depth - 1)
    ELSE Encloses(Tail(path), depth + 1)
EnclosedName(path) == Encloses(path, 0)

\* extractor.rs:124-127
ShouldExcludeExact(path, patterns) ==
    \E k \in 1..Len(patterns) : path = patterns[k]

ShouldExclude(path, patterns) ==
    \E k \in 1..Len(patterns) : StartsWith(path, patterns[k])

\* extractor.rs:216 the pattern deploy_bepinex passes
PluginsDir == <<<<"BepInEx">>, <<"plugins">>>>

Entry(path, isDir, isLink, readable, id) ==
    [path |-> path, dir |-> isDir, link |-> isLink, readable |-> readable, id |-> id]

EntryCore == Entry(<<<<"BepInEx">>, <<"core">>, <<"a", "dll">>>>, FALSE, FALSE, TRUE, "zipA")
EntryPlugin == Entry(PluginsDir \o <<<<"p", "dll">>>>, FALSE, FALSE, TRUE, "zipP")
EntryPluginsDir == Entry(PluginsDir, TRUE, FALSE, TRUE, "dir")
EntryNear == Entry(<<<<"BepInEx">>, <<"plugins2">>, <<"q", "dll">>>>, FALSE, FALSE, TRUE, "zipQ")
EntryCoreDir == Entry(<<<<"BepInEx">>, <<"core">>>>, TRUE, FALSE, TRUE, "dir")
EntryEvil == Entry(<<ParentDir, ParentDir, <<"evil", "txt">>>>, FALSE, FALSE, TRUE, "zipE")
EntryAbs == Entry(<<RootDir, <<"abs", "txt">>>>, FALSE, FALSE, TRUE, "zipR")
EntryInner == Entry(<<<<"BepInEx">>, ParentDir, <<"x", "txt">>>>, FALSE, FALSE, TRUE, "zipI")
EntryLink == Entry(<<<<"BepInEx">>, <<"link">>>>, FALSE, TRUE, TRUE, "zipL")
EntryCorrupt == Entry(<<<<"BepInEx">>, <<"bad">>>>, FALSE, FALSE, FALSE, "zipC")

Catalogue ==
    { EntryCore, EntryPlugin, EntryPluginsDir, EntryNear, EntryCoreDir,
      EntryEvil, EntryAbs, EntryInner, EntryLink, EntryCorrupt }

Archives ==
    { a \in UNION { [1..n -> Catalogue] : n \in 1..MaxEntries } :
        \A j, k \in DOMAIN a : j # k => a[j] # a[k] }

\* extractor.rs:73-122 the checks made on an entry before anything is written
Rejected(e) ==
    \/ ~e.readable
    \/ ~EnclosedName(e.path)
    \/ ~IsSafePath(e.path)
    \/ e.link

\* std::fs::remove_file(p), result ignored (`let _ =`)
TryRemove(fs, p) == IF Exists(fs, p) THEN { Remove(fs, p), fs } ELSE { fs }

\* extractor.rs:133-202 the outcomes of writing one entry: the new tree and
\* whether the loop goes on ("next") or extract returns Err ("err")
WriteEntry(fs, e) ==
    LET outpath == e.path
        out(f, st) == [fs |-> f, st |-> st]
    IN IF e.dir
       THEN \* extractor.rs:135-141
            (IF CanMkdirAll(fs, outpath) THEN { out(MkdirAll(fs, outpath), "next") } ELSE {})
            \cup { out(fs, "err") }
       ELSE \* extractor.rs:143-150 create_dir_all(parent)?
            { out(fs, "err") } \cup
            (IF ~CanMkdirAll(fs, Front(outpath)) THEN {}
             ELSE LET fs1 == MkdirAll(fs, Front(outpath))
                      \* extractor.rs:152-158
                      tmp == ProbeTmp(fs1, outpath, 0)
                      \* extractor.rs:174 io::copy completed
                      fs2 == Put(fs1, tmp, Complete(e.id))
                  IN \* extractor.rs:160-172 File::create failed
                     { out(fs1, "err") }
                     \* extractor.rs:174-183 io::copy failed part-way
                     \cup { out(Put(fs1, tmp, [id |-> e.id, len |-> n]), "err") :
                                n \in 0..(FileChunks - 1) }
                     \* extractor.rs:185-201
                     \cup UNION { { out(f, IF o.res = "ok" THEN "next" ELSE "err") :
                                        f \in TryRemove(o.fs, tmp) } :
                                  o \in AtomicOutcomes(AtomicStart(fs2, tmp, outpath)) })

UserFile == [id |-> "user", len |-> FileChunks]

\* an existing installation: the user's plugins and a leftover temp file
InstalledTree ==
    LET dirs == { <<<<"BepInEx">>>>, PluginsDir, <<<<"BepInEx">>, <<"core">>>> }
        files == { PluginsDir \o <<<<"other", "dll">>>>, PluginsDir \o <<<<"p", "dll">>>>,
                   <<<<"BepInEx">>, <<"core">>, <<"a", "tmp">>>> }
    IN [q \in dirs \cup files |-> IF q \in dirs THEN Dir ELSE UserFile]

ExtractInit ==
    /\ archive \in Archives
    /\ \E ex \in { <<>>, <<PluginsDir>> }, f \in { EmptyFs, InstalledTree } :
          /\ excl = ex
          /\ xfs = f
          /\ xfs0 = f
    /\ xi = 1
    /\ xpc = "loop"
    /\ extracted = <<>>

\* extractor.rs:73-101 an entry that cannot be read, or whose path is not
\* safe, makes extract return Err
ExtractReject ==
    /\ xpc = "loop" /\ xi <= Len(archive)
    /\ LET e == archive[xi]
       IN \/ ~e.readable
          \/ ~EnclosedName(e.path)
          \/ ~IsSafePath(e.path)
    /\ xpc' = "err"
    /\ UNCHANGED <<archive, excl, xi, xfs, xfs0, extracted, extractFrame>>

\* extractor.rs:103-122 a symbolic link makes extract return Err
ExtractRejectLink ==
    /\ xpc = "loop" /\ xi <= Len(archive)
    /\ LET e == archive[xi]
       IN e.readable /\ EnclosedName(e.path) /\ IsSafePath(e.path) /\ e.link
    /\ xpc' = "err"
    /\ UNCHANGED <<archive, excl, xi, xfs, xfs0, extracted, extractFrame>>

\* extractor.rs:124-131 `continue`
ExtractSkip ==
    /\ xpc = "loop" /\ xi <= Len(archive)
    /\ LET e == archive[xi]
       IN e.readable /\ EnclosedName(e.path) /\ IsSafePath(e.path) /\ ~e.link
          /\ ShouldExclude(e.path, excl)
    /\ xi' = xi + 1
    /\ UNCHANGED <<archive, excl, xpc, xfs, xfs0, extracted, extractFrame>>

\* extractor.rs:133-202
ExtractWrite ==
    /\ xpc = "loop" /\ xi <= Len(archive)
    /\ LET e == archive[xi]
       IN /\ e.readable /\ EnclosedName(e.path) /\ IsSafePath(e.path) /\ ~e.link
          /\ ~ShouldExclude(e.path, excl)
          /\ \E o \in WriteEntry(xfs, e) :
                /\ xfs' = o.fs
                /\ IF o.st = "next"
                   THEN /\ xi' = xi + 1
                        /\ xpc' = xpc
                        /\ extracted' = IF e.dir THEN extracted ELSE Append(extracted, e.path)
                   ELSE /\ xpc' = "err"
                        /\ UNCHANGED <<xi, extracted>>
    /\ UNCHANGED <<archive, excl, xfs0, extractFrame>>

\* extractor.rs:205-209
ExtractReturn ==
    /\ xpc = "loop" /\ xi > Len(archive)
    /\ xpc' = "ok"
    /\ UNCHANGED <<archive, excl, xi, xfs, xfs0, extracted, extractFrame>>

(***************************************************************************)
(* backup_with_index (src/src/file_ops.rs:86-119)                          *)
(***************************************************************************)
MaxOldBackups == 2

\* format!("{}.{}", ext_suffix, idx)
IdxStr == <<"1", "2", "3", "4", "5">>
BackupExt(suffix, idx) == IF idx = 0 THEN suffix ELSE suffix \o <<IdxStr[idx]>>
BackupName(path, suffix, idx) == WithExtension(path, BackupExt(suffix, idx))

NoPath == <<>>

\* file_ops.rs:94-118: the loop from index idx on; every way it can return
RECURSIVE BackupLoop(_, _, _, _)
BackupLoopNoProbe(fs, path, suffix, idx) ==
    { [fs |-> o.fs, res |-> o.res, backup |-> IF o.res = "ok" THEN o.dst ELSE NoPath]
      : o \in AtomicOutcomes(AtomicStart(fs, path, BackupName(path, suffix, 0))) }

BackupLoop(fs, path, suffix, idx) ==
    LET backup == BackupName(path, suffix, idx)
    IN IF Exists(fs, backup)
       THEN BackupLoop(fs, path, suffix, idx + 1)
       ELSE UNION { IF o.res = "ok"
                    THEN { [fs |-> o.fs, res |-> "ok", backup |-> backup] }
                    ELSE IF Exists(o.fs, backup)
                    THEN BackupLoop(o.fs, path, suffix, idx + 1)
                    ELSE { [fs |-> o.fs, res |-> "err", backup |-> NoPath] }
                  : o \in AtomicOutcomes(AtomicStart(fs, path, backup)) }

BackupWithIndex(fs, path, suffix) ==
    IF ~Exists(fs, path)
    THEN { [fs |-> fs, res |-> "err", backup |-> NoPath] }
    ELSE BackupLoop(fs, path, suffix, 0)

(***************************************************************************)
(* Upgrader::consolidate_installed_by_pattern (src/src/upgrader.rs:63-139) *)
(* for the MetaMystia DLLs of BepInEx/plugins.  A file name is the         *)
(* sequence of its dot-separated segments.                                 *)
(***************************************************************************)
MaxCandidates == 3

PluginsPath == <<<<"BepInEx">>, <<"plugins">>>>
DllBackupSuffix == <<"dll", "old">>

\* name.strip_prefix("MetaMystia-v"): what is left of the first segment, or
\* NoPrefix when the name does not start with the prefix
NoPrefix == "<none>"
StripPrefix(seg) ==
    CASE seg = "MetaMystia-v1" -> "1"
      [] seg = "MetaMystia-v2" -> "2"
      [] seg = "MetaMystia-v10" -> "10"
      [] seg = "MetaMystia-vbeta" -> "beta"
      [] OTHER -> NoPrefix

\* u64 parse of one version component; -1 when it is not a number
NumberOf(s) ==
    CASE s = "0" -> 0
      [] s = "1" -> 1
      [] s = "2" -> 2
      [] s = "5" -> 5
      [] s = "10" -> 10
      [] OTHER -> -1

\* the glob MetaMystia-*.dll on a file name
GlobName(name) ==
    /\ Len(name) >= 2
    /\ Last(name) = "dll"
    /\ name[1] \in {"MetaMystia-v1", "MetaMystia-v2", "MetaMystia-v10",
                    "MetaMystia-vbeta", "MetaMystia-1"}

\* upgrader.rs:31-39 parse_version: Some(<<major, minor, patch>>) or NoVersion
NoVersion == <<>>
ParseVersion(name) ==
    IF Last(name) # "dll" \/ StripPrefix(name[1]) = NoPrefix
    THEN NoVersion
    ELSE LET parts == <<StripPrefix(name[1])>> \o SubSeq(name, 2, Len(name) - 1)
         IN IF Len(parts) = 3 /\ \A k \in 1..3 : NumberOf(parts[k]) >= 0
            THEN [k \in 1..3 |-> NumberOf(parts[k])]
            ELSE NoVersion

\* semver::Version::cmp
VersionLess(a, b) ==
    \/ a[1] < b[1]
    \/ a[1] = b[1] /\ a[2] < b[2]
    \/ a[1] = b[1] /\ a[2] = b[2] /\ a[3] < b[3]

\* the file names of the model, listed in the byte order of their strings
\* (PathBuf::cmp): MetaMystia-1.0.0.dll, MetaMystia-v1.0.0.dll,
\* MetaMystia-v1.0.dll, MetaMystia-v1.5.0.dll, MetaMystia-v10.0.0.dll,
\* MetaMystia-v2.0.0.dll, MetaMystia-vbeta.dll
NameOrder ==
    << <<"MetaMystia-1", "0", "0", "dll">>,
       <<"MetaMystia-v1", "0", "0", "dll">>,
       <<"MetaMystia-v1", "0", "dll">>,
       <<"MetaMystia-v1", "5", "0", "dll">>,
       <<"MetaMystia-v10", "0", "0", "dll">>,
       <<"MetaMystia-v2", "0", "0", "dll">>,
       <<"MetaMystia-vbeta", "dll">> >>
NameRank(name) == CHOOSE k \in 1..Len(NameOrder) : NameOrder[k] = name
PathLess(p, q) == NameRank(Last(p)) < NameRank(Last(q))

ContentId == <<"c1", "c2", "c3", "c4", "c5", "c6", "c7">>
ContentOf(p) == Complete(ContentId[NameRank(Last(p))])

\* file_ops.rs:168-181 glob_matches(dir.join(pattern))
GlobMatches(fs, dir) ==
    { p \in DOMAIN fs : Len(p) = Len(dir) + 1 /\ Front(p) = dir /\ GlobName(Last(p)) }

\* ordering the parsed candidates by path instead of by version
ParsedBeforeByPath(a, b) == PathLess(a, b)

\* upgrader.rs:97 parsed.sort_by(|a, b| a.0.cmp(&b.0))
ParsedBefore(a, b) == VersionLess(ParseVersion(Last(a)), ParseVersion(Last(b)))

\* the paths of S as the ascending vector the sort leaves
SortedParsed(S) ==
    CHOOSE s \in [1..Cardinality(S) -> S] :
        \A i, j \in 1..Cardinality(S) : i < j => ParsedBefore(s[i], s[j])
\* upgrader.rs:118 unparsed.sort()
SortedUnparsed(S) ==
    CHOOSE s \in [1..Cardinality(S) -> S] :
        \A i, j \in 1..Cardinality(S) : i < j => PathLess(s[i], s[j])

\* the whole vector reversed, the greatest element included
RevSkipNone(s) == [k \in 1..Len(s) |-> s[Len(s) + 1 - k]]

\* v.into_iter().rev().skip(1)
RevSkipLast(s) == [k \in 1..(Len(s) - 1) |-> s[Len(s) - k]]

NoLatest == [tag |-> "none", version |-> NoVersion, name |-> NoPath, path |-> NoPath]
SomeLatest(version, name, path) ==
    [tag |-> "some", version |-> version, name |-> name, path |-> path]

Candidates(fs) == GlobMatches(fs, PluginsPath)
Parsed(fs) == { p \in Candidates(fs) : ParseVersion(Last(p)) # NoVersion }
Unparsed(fs) == Candidates(fs) \ Parsed(fs)

ConsolidateInit ==
    \E dirThere \in BOOLEAN :
    \E names \in SUBSET { NameOrder[k] : k \in 1..Len(NameOrder) } :
    \E olds \in SUBSET (0..(MaxOldBackups - 1)) :
        LET base == MkdirAll(EmptyFs, PluginsPath)
            files == { PluginsPath \o <<n>> : n \in names }
            kept == { BackupName(PluginsPath \o <<NameOrder[2]>>, DllBackupSuffix, i) : i \in olds }
            f == [q \in DOMAIN base \cup files \cup kept |->
                    IF q \in DOMAIN base THEN Dir
                    ELSE IF q \in files THEN ContentOf(q)
                    ELSE Complete("kept")]
        IN /\ Cardinality(names) <= MaxCandidates
           /\ ~dirThere => names = {} /\ olds = {}
           /\ cfs = (IF dirThere THEN f ELSE EmptyFs)
           /\ cfs0 = cfs
           /\ cpc = "start"
           /\ cqueue = <<>>
           /\ clatest = NoLatest
           /\ cresult = NoLatest
           /\ cwarned = {}
           /\ cfailed = {}
           /\ cbackups = {}

\* upgrader.rs:71-73, 86-88: nothing to consolidate
ConsolidateNone ==
    /\ cpc = "start"
    /\ ~Exists(cfs, PluginsPath) \/ Candidates(cfs) = {}
    /\ cpc' = "done"
    /\ cresult' = NoLatest
    /\ UNCHANGED <<cfs, cfs0, cqueue, clatest, cwarned, cfailed, cbackups, consolidateFrame>>

\* upgrader.rs:75-104: parse every match, warn about the unparsed ones; some
\* name parsed: the greatest version is the latest, the other parsed ones
\* are to be backed up
ConsolidateParsed ==
    /\ cpc = "start"
    /\ Exists(cfs, PluginsPath)
    /\ Parsed(cfs) # {}
    /\ LET sorted == SortedParsed(Parsed(cfs))
           p == Last(sorted)
       IN /\ clatest' = SomeLatest(ParseVersion(Last(p)), NoPath, p)
          /\ cqueue' = RevSkipLast(sorted)
    /\ cwarned' = Unparsed(cfs)
    /\ cpc' = "backup"
    /\ UNCHANGED <<cfs, cfs0, cresult, cfailed, cbackups, consolidateFrame>>

\* upgrader.rs:75-84, 113-128: no name parsed: the greatest path is the
\* latest and its file name stands for the version
ConsolidateUnparsed ==
    /\ cpc = "start"
    /\ Exists(cfs, PluginsPath)
    /\ Parsed(cfs) = {} /\ Unparsed(cfs) # {}
    /\ LET sorted == SortedUnparsed(Unparsed(cfs))
           p == Last(sorted)
       IN /\ clatest' = SomeLatest(NoVersion, Last(p), p)
          /\ cqueue' = RevSkipLast(sorted)
    /\ cwarned' = Unparsed(cfs)
    /\ cpc' = "backup"
    /\ UNCHANGED <<cfs, cfs0, cresult, cfailed, cbackups, consolidateFrame>>

\* file_ops.rs:157-165 backup_paths_with_index, one path of to_backup, and
\* upgrader.rs:106-112 / 130-136 for its result: an Err is reported through
\* ui.upgrade_backup_failed (ui.rs:889-892, returns Ok) and the loop goes on
ConsolidateBackup ==
    /\ cpc = "backup" /\ cqueue # <<>>
    /\ \E o \in BackupWithIndex(cfs, Head(cqueue), DllBackupSuffix) :
          /\ cfs' = o.fs
          /\ cfailed' = IF o.res = "err" THEN cfailed \cup {Head(cqueue)} ELSE cfailed
          /\ cbackups' = IF o.res = "ok"
                         THEN cbackups \cup {<<Head(cqueue), o.backup>>}
                         ELSE cbackups
    /\ cqueue' = Tail(cqueue)
    /\ UNCHANGED <<cfs0, cpc, clatest, cresult, cwarned, consolidateFrame>>

\* upgrader.rs:138
ConsolidateReturn ==
    /\ cpc = "backup" /\ cqueue = <<>>
    /\ cpc' = "done"
    /\ cresult' = clatest
    /\ UNCHANGED <<cfs, cfs0, cqueue, clatest, cwarned, cfailed, cbackups, consolidateFrame>>

(***************************************************************************)
(* Downloader::download_metamystia (src/src/downloader.rs:368-441) with    *)
(* get_dll_download_url_from_github (330-365) and                          *)
(* download_file_with_progress (182-195).  Three operations are retried,   *)
(* each by its own call of with_retry: the GitHub release lookup, the      *)
(* GitHub download and the mirror download.  The Ui is the one of this     *)
(* repository, whose display sinks return Ok (ui.rs:1188-1212).            *)
(***************************************************************************)
Sources == {"lookup", "github", "mirror"}

DownloadFailed == [tag |-> "Err", by |-> -1]

\* downloader.rs:341-364: the URL of the first asset named MetaMystia-v*.dll,
\* or an error when the lookup failed or no asset matches
GithubUrl(lookup, asset) ==
    IF lookup.tag = "Ok" /\ asset THEN "url" ELSE "err"

\* downloader.rs:188-194: Ok stays Ok, any Err becomes DownloadFailed
DownloadFileResult(r) == IF r.tag = "Ok" THEN r ELSE DownloadFailed

\* the Ok arm keeps the GitHub result, the Err arm goes to the mirror
AfterGithubNoFallback(r) == "done"

\* downloader.rs:378-379, 405-411
AfterGithub(r) == IF r.tag = "Ok" THEN "done" ELSE "switch"

DownloadInit ==
    /\ dworld \in [Sources -> Plans]
    /\ dasset \in BOOLEAN
    /\ dsrc = "lookup"
    /\ dpc = "call"
    /\ dattempt = 0
    /\ dlog = <<>>
    /\ dnotes = [s \in Sources |-> <<>>]
    /\ dret = [s \in Sources |-> NoResult]
    /\ dresult = NoResult

Calls(log, s) == { k \in 1..Len(log) : log[k] = s }

\* net.rs:19-47 inside the with_retry call of the current source: invoke the
\* operation and take the arm of the match
DownloadCall ==
    /\ dpc = "call"
    /\ LET n == Cardinality(Calls(dlog, dsrc)) + 1
           o == Invoke(dworld[dsrc], n)
           arm == RetryMatch(o, dattempt)
       IN /\ dlog' = Append(dlog, dsrc)
          /\ IF arm = "return"
             THEN /\ dpc' = "returned"
                  /\ dret' = [dret EXCEPT ![dsrc] = o]
             ELSE /\ dpc' = "notify"
                  /\ dret' = dret
    /\ UNCHANGED <<dworld, dasset, dsrc, dattempt, dnotes, dresult, downloadFrame>>

\* net.rs:22-42: ui.network_retrying (ui.rs returns Ok), sleep, next attempt
DownloadRetry ==
    /\ dpc = "notify"
    /\ dnotes' = [dnotes EXCEPT ![dsrc] = Append(@, RetryDelay(dattempt))]
    /\ dattempt' = dattempt + 1
    /\ dpc' = "call"
    /\ UNCHANGED <<dworld, dasset, dsrc, dlog, dret, dresult, downloadFrame>>

\* downloader.rs:333-364, 377-378: the lookup returned and an asset matches;
\* the GitHub download starts
DownloadFound ==
    /\ dpc = "returned" /\ dsrc = "lookup"
    /\ GithubUrl(dret["lookup"], dasset) = "url"
    /\ dsrc' = "github"
    /\ dattempt' = 0
    /\ dpc' = "call"
    /\ UNCHANGED <<dworld, dasset, dlog, dnotes, dret, dresult, downloadFrame>>

\* downloader.rs:359-364, 413-421: no URL; switch notification, then the
\* mirror download starts
DownloadNoUrl ==
    /\ dpc = "returned" /\ dsrc = "lookup"
    /\ GithubUrl(dret["lookup"], dasset) = "err"
    /\ dlog' = dlog \o <<"switch", "try_fallback">>
    /\ dsrc' = "mirror"
    /\ dattempt' = 0
    /\ dpc' = "call"
    /\ UNCHANGED <<dworld, dasset, dnotes, dret, dresult, downloadFrame>>

\* downloader.rs:378-390 and 405-411: the GitHub download returned
DownloadGithubReturned ==
    /\ dpc = "returned" /\ dsrc = "github"
    /\ IF AfterGithub(DownloadFileResult(dret["github"])) = "done"
       THEN /\ dresult' = DownloadFileResult(dret["github"])
            /\ dpc' = "done"
            /\ UNCHANGED <<dlog, dsrc, dattempt>>
       ELSE /\ dlog' = dlog \o <<"switch", "try_fallback">>
            /\ dsrc' = "mirror"
            /\ dattempt' = 0
            /\ dpc' = "call"
            /\ dresult' = dresult
    /\ UNCHANGED <<dworld, dasset, dnotes, dret, downloadFrame>>

\* downloader.rs:389-403, 423-437: the mirror download returned
DownloadMirrorReturned ==
    /\ dpc = "returned" /\ dsrc = "mirror"
    /\ dresult' = DownloadFileResult(dret["mirror"])
    /\ dpc' = "done"
    /\ UNCHANGED <<dworld, dasset, dsrc, dattempt, dlog, dnotes, dret, downloadFrame>>

(***************************************************************************)
(* Installer::install (src/src/installer.rs:137-304) on the game           *)
(* directory.  Downloads go to the temp work directory                     *)
(* (src/src/temp_dir.rs), then the old installation is cleaned up and the  *)
(* downloaded files are deployed.  The Ui is the one of this repository,   *)
(* whose display sinks return Ok; its questions can return an error.       *)
(* Every local file operation can fail; MaxFaults bounds how many of them  *)
(* do in one install.  A request that fails leaves the disk as it is and   *)
(* is not counted.                                                         *)
(***************************************************************************)
MaxFaults == 1

\* temp_dir.rs:118 base.join(".meta-mystia-tmp")
TempDir == <<<<".meta-mystia-tmp">>>>
UnderTemp(p) == StartsWith(p, TempDir)

\* std::fs::remove_dir_all(dir)
RemoveTree(fs, dir) == [q \in { p \in DOMAIN fs : ~StartsWith(p, dir) } |-> fs[q]]

\* the file names of the version info: model.rs:40-48, 62-70
BepInExZipName == <<"BepInEx-Unity", "zip">>
NewDllName == <<"MetaMystia-v2", "0", "0", "dll">>
NewZipName == <<"ResourceExample-v2", "0", "0", "zip">>
OldDllName == <<"MetaMystia-v1", "0", "0", "dll">>
OldZipName == <<"ResourceExample-v1", "0", "0", "zip">>
ResourceExPath == <<<<"ResourceEx">>>>

\* the glob ResourceExample-*.zip on a file name
GlobZipName(name) ==
    /\ Len(name) >= 2
    /\ Last(name) = "zip"
    /\ name[1] \in {"ResourceExample-v1", "ResourceExample-v2"}

\* installer.rs:137-304, the order of the steps
InstallStepsCleanupFirst ==
    << "version", "notes", "share", "ask", "tempdir", "cleanup", "bepinex", "dll",
       "resourceex", "completed", "deploy_bepinex", "config", "deploy_dll",
       "deploy_resourceex", "finished" >>

InstallSteps ==
    << "version", "notes", "share", "ask", "tempdir", "bepinex", "dll",
       "resourceex", "completed", "cleanup", "deploy_bepinex", "config", "deploy_dll",
       "deploy_resourceex", "finished" >>

InstallStep == IF ipc = "run" THEN InstallSteps[ipos] ELSE ipc

\* installer.rs:193, 199, 206: the destination of a download
DownloadDest(step) ==
    TempDir \o << CASE step = "bepinex" -> BepInExZipName
                    [] step = "dll" -> NewDllName
                    [] OTHER -> NewZipName >>

\* the sources of an artifact, in the order they are tried:
\* downloader.rs:469-541, 368-441, 444-466
SourcesOf(step) ==
    CASE step = "bepinex" -> <<"primary", "mirror">>
      [] step = "dll" -> <<"github", "mirror">>
      [] OTHER -> <<"mirror">>

\* how often the body of a source is written: downloader.rs:491 writes the
\* primary response once (the request before it is retried and writes
\* nothing); download_file_with_progress retries the whole download
TriesOf(src) == IF src = "primary" THEN 1 ELSE Attempts

\* format!("dl.tmp{}", idx)
DlTmpExt(idx) == IF idx = 0 THEN <<"dl", "tmp">> ELSE <<"dl", TmpSuffix[idx]>>
RECURSIVE ProbeDlTmp(_, _, _)
ProbeDlTmp(fs, dest, idx) ==
    IF Exists(fs, WithExtension(dest, DlTmpExt(idx)))
    THEN ProbeDlTmp(fs, dest, idx + 1)
    ELSE WithExtension(dest, DlTmpExt(idx))

\* an outcome of a file operation: the new tree, Ok or Err, and whether a
\* local fault happened
Outcome(fs, res, fault) == [fs |-> fs, res |-> res, fault |-> fault]

\* atomic_rename_or_copy(src, dst) with the outcomes of the step relation;
\* the one without a fault is the rename of file_ops.rs:48
AtomicResults(fs, src, dst) ==
    { Outcome(o.fs, o.res,
              IF o.res = "ok" /\ CanMkdirAll(fs, Front(dst))
                 /\ o.fs = RenameOk(MkdirAll(fs, Front(dst)), src, dst)
              THEN 0 ELSE 1)
      : o \in AtomicOutcomes(AtomicStart(fs, src, dst)) }

\* downloader.rs:229-328 write_response_to_file(resp, dest)
WriteResponseToFile(fs, dest, id) ==
    LET tmp == ProbeDlTmp(fs, dest, 0)
        full == Put(fs, tmp, Complete(id))
    IN \* 236-257 create_dir_all or File::create failed
       { Outcome(fs, "err", 1) }
       \* 263-297 the body broke off, 298-303 flush failed
       \cup { Outcome(Put(fs, tmp, [id |-> id, len |-> n]), "err", 1) : n \in 0..FileChunks }
       \* 305-327
       \cup UNION { { Outcome(f, o.res, IF o.fault = 0 /\ ~Exists(f, tmp) THEN 0 ELSE 1)
                      : f \in TryRemove(o.fs, tmp) }
                    : o \in AtomicResults(full, tmp, dest) }

\* downloader.rs:196-227 try_download: the request fails, or the response is
\* written to dest
TryDownload(fs, dest, id) ==
    { Outcome(fs, "err", 0) } \cup WriteResponseToFile(fs, dest, id)

\* std::fs::copy / std::fs::write to dst: an error leaves what was written
WriteFile(fs, dst, id) ==
    { Outcome(fs, "err", 1) }
    \cup { Outcome(Put(fs, dst, [id |-> id, len |-> n]), "err", 1) : n \in 0..(FileChunks - 1) }
    \cup { Outcome(Put(fs, dst, Complete(id)), "ok", 0) }

\* extractor.rs:248-276, 297-324 and installer.rs:278-290: write tmp, then
\* atomic_rename_or_copy(tmp, dest)
PlaceFile(fs, tmp, dest, id) ==
    UNION { IF w.res = "err" THEN {w}
            ELSE AtomicResults(w.fs, tmp, dest)
          : w \in WriteFile(fs, tmp, id) }

\* the archive the framework package holds
BepInExArchive == <<EntryCoreDir, EntryCore, EntryPlugin>>

\* the tree after an entry was written without a fault
CleanEntry(fs, e) ==
    IF e.dir THEN MkdirAll(fs, e.path)
    ELSE Put(MkdirAll(fs, Front(e.path)), e.path, Complete(e.id))

\* extractor.rs:73-209 on a whole archive
RECURSIVE ExtractZip(_, _, _, _, _)
ExtractZip(fs, arch, patterns, i, fault) ==
    IF i > Len(arch) THEN { Outcome(fs, "ok", fault) }
    ELSE IF Rejected(arch[i]) THEN { Outcome(fs, "err", fault) }
    ELSE IF ShouldExclude(arch[i].path, patterns)
    THEN ExtractZip(fs, arch, patterns, i + 1, fault)
    ELSE UNION { IF o.st = "next"
                 THEN ExtractZip(o.fs, arch, patterns, i + 1,
                                 IF o.fs = CleanEntry(fs, arch[i]) THEN fault ELSE 1)
                 ELSE { Outcome(o.fs, "err", 1) }
               : o \in WriteEntry(fs, arch[i]) }

\* config.rs:13-20 FULL_TARGETS, the files of the game root
FullRootFiles ==
    { <<<<".doorstop_version">>>>, <<<<"changelog", "txt">>>>, <<<<"doorstop_config", "ini">>>>,
      <<<<"MinHook", "x64", "dll">>>>, <<<<"winhttp", "dll">>>> }

\* installer.rs:63-134 the targets of execute_install_cleanup
CleanupTargets(fs) ==
    { p \in DOMAIN fs : Len(p) = 2 /\ p[1] = <<"BepInEx">> /\ p[2] # <<"plugins">> }
    \cup GlobMatches(fs, PluginsPath)
    \cup { p \in DOMAIN fs : Len(p) = 2 /\ Front(p) = ResourceExPath /\ GlobZipName(Last(p)) }
    \cup { p \in FullRootFiles : Exists(fs, p) }

\* file_ops.rs:226-255 execute_deletion with the targets of S deleted
DeleteAll(fs, S) == [q \in { p \in DOMAIN fs : \A t \in S : ~StartsWith(p, t) } |-> fs[q]]

InstallOk == [tag |-> "Ok", why |-> "finished"]
InstallErr(why) == [tag |-> "Err", why |-> why]
InstallNoResult == [tag |-> "None", why |-> "running"]

\* a game directory without the mod, one with an installation and the
\* user's own plugin, and one that also has a stale temp work directory
FreshGame == [q \in { <<<<"Game", "exe">>>> } |-> Complete("game")]
InstalledGame ==
    LET dirs == { <<<<"BepInEx">>>>, PluginsDir, <<<<"BepInEx">>, <<"core">>>>, ResourceExPath }
        files == { <<<<"Game", "exe">>>>, <<<<"winhttp", "dll">>>>,
                   <<<<"BepInEx">>, <<"core">>, <<"a", "dll">>>>,
                   PluginsDir \o <<OldDllName>>, PluginsDir \o <<<<"other", "dll">>>>,
                   ResourceExPath \o <<OldZipName>> }
    IN [q \in dirs \cup files |-> IF q \in dirs THEN Dir ELSE UserFile]
StaleGame ==
    Put(Put(InstalledGame, TempDir, Dir),
        WithExtension(DownloadDest("dll"), DlTmpExt(0)), [id |-> "stale", len |-> 1])

InstallInit ==
    /\ ifs0 \in { FreshGame, InstalledGame, StaleGame }
    /\ icleanup \in BOOLEAN
    /\ ifs = ifs0
    /\ ipc = "run"
    /\ ipos = 1
    /\ iwant = FALSE
    /\ iasked = "none"
    /\ ishow = FALSE
    /\ iprimary = FALSE
    /\ iguard = FALSE
    /\ isrc = 1
    /\ itry = 0
    /\ ifaults = 0
    /\ idone = {}
    /\ iresult = InstallNoResult

\* the next step of install
Advance ==
    /\ ipos' = ipos + 1
    /\ ipc' = ipc
    /\ iresult' = iresult

\* install returns; the DirGuard of temp_dir.rs, when it exists, is dropped
Return(res) ==
    /\ iresult' = res
    /\ ipc' = IF iguard THEN "drop" ELSE "done"
    /\ ipos' = ipos

\* installer.rs:141-144 get_version_info()?
InstallVersionInfo ==
    /\ InstallStep = "version"
    /\ \E ok \in BOOLEAN : IF ok THEN Advance ELSE Return(InstallErr("version"))
    /\ UNCHANGED <<ifs, ifs0, icleanup, iwant, iasked, ishow, iprimary, iguard, isrc, itry, ifaults, idone, installFrame>>

\* installer.rs:147-155: release notes shown and the user declines, or not
InstallReleaseNotes ==
    /\ InstallStep = "notes"
    /\ \E goOn \in BOOLEAN : IF goOn THEN Advance ELSE Return(InstallErr("cancelled"))
    /\ UNCHANGED <<ifs, ifs0, icleanup, iwant, iasked, ishow, iprimary, iguard, isrc, itry, ifaults, idone, installFrame>>

\* installer.rs:158-160 get_share_code()?
InstallShareCode ==
    /\ InstallStep = "share"
    /\ \E ok \in BOOLEAN : IF ok THEN Advance ELSE Return(InstallErr("share"))
    /\ UNCHANGED <<ifs, ifs0, icleanup, iwant, iasked, ishow, iprimary, iguard, isrc, itry, ifaults, idone, installFrame>>

\* installer.rs:163-176: the resource bundle question is put unless this is a
\* reinstall over a game that already holds a bundle
AsksResourceex(cleanup, fs) ==
    ~(cleanup /\ \E p \in DOMAIN fs :
                    Len(p) = 2 /\ Front(p) = ResourceExPath /\ GlobZipName(Last(p)))

\* installer.rs:163-179 the two questions
InstallAsk ==
    /\ InstallStep = "ask"
    /\ \E answered \in BOOLEAN, want \in BOOLEAN, show \in BOOLEAN :
          IF answered
          THEN /\ iwant' = (IF AsksResourceex(icleanup, ifs) THEN want ELSE TRUE)
               /\ iasked' = (IF ~AsksResourceex(icleanup, ifs) THEN "none"
                             ELSE IF want THEN "yes" ELSE "no")
               /\ ishow' = show
               /\ Advance
          ELSE /\ Return(InstallErr("ask"))
               /\ want /\ show
               /\ UNCHANGED <<iwant, iasked, ishow>>
    /\ UNCHANGED <<ifs, ifs0, icleanup, iprimary, iguard, isrc, itry, ifaults, idone, installFrame>>

\* installer.rs:182-187, temp_dir.rs:117-150 create_temp_dir_with_guard: a
\* stale directory is removed (a failure is only reported), then
\* create_dir_all
InstallCreateTempDir ==
    /\ InstallStep = "tempdir"
    /\ \E cleared \in BOOLEAN, created \in BOOLEAN :
          LET f1 == IF cleared THEN RemoveTree(ifs, TempDir) ELSE ifs
              cost == (IF cleared \/ ~Exists(ifs, TempDir) THEN 0 ELSE 1)
                      + (IF created THEN 0 ELSE 1)
          IN /\ ~Exists(ifs, TempDir) => cleared
             /\ ifaults + cost <= MaxFaults
             /\ ifaults' = ifaults + cost
             /\ IF created
                THEN /\ ifs' = Put(f1, TempDir, Dir)
                     /\ iguard' = TRUE
                     /\ Advance
                ELSE /\ ifs' = f1
                     /\ iguard' = FALSE
                     /\ Return(InstallErr("tempdir"))
    /\ UNCHANGED <<ifs0, icleanup, iwant, iasked, ishow, iprimary, isrc, itry, idone, installFrame>>

\* installer.rs:193-211 with downloader.rs:182-195, 368-441, 444-466,
\* 469-541: one try of the current source of the artifact of this step
InstallDownload ==
    /\ InstallStep \in {"bepinex", "dll", "resourceex"}
    /\ InstallStep = "resourceex" => iwant
    /\ LET step == InstallStep
           srcs == SourcesOf(step)
       IN \E o \in TryDownload(ifs, DownloadDest(step), step) :
             /\ ifaults + o.fault <= MaxFaults
             /\ ifaults' = ifaults + o.fault
             /\ ifs' = o.fs
             /\ IF o.res = "ok"
                THEN /\ Advance
                     /\ isrc' = 1 /\ itry' = 0
                     /\ idone' = idone \cup {step}
                     /\ iprimary' = IF step = "bepinex" THEN srcs[isrc] = "primary" ELSE iprimary
                ELSE /\ UNCHANGED <<idone, iprimary>>
                     /\ IF itry + 1 < TriesOf(srcs[isrc])
                        THEN /\ itry' = itry + 1 /\ isrc' = isrc
                             /\ UNCHANGED <<ipos, ipc, iresult>>
                        ELSE IF isrc < Len(srcs)
                        THEN /\ itry' = 0 /\ isrc' = isrc + 1
                             /\ UNCHANGED <<ipos, ipc, iresult>>
                        ELSE /\ UNCHANGED <<itry, isrc>>
                             /\ Return(InstallErr("exhausted"))
    /\ UNCHANGED <<ifs0, icleanup, iwant, iasked, ishow, iguard, installFrame>>

\* installer.rs:204-211 install_resourceex is false
InstallSkipResourceEx ==
    /\ InstallStep = "resourceex" /\ ~iwant
    /\ Advance
    /\ UNCHANGED <<ifs, ifs0, icleanup, iwant, iasked, ishow, iprimary, iguard, isrc, itry, ifaults, idone, installFrame>>

\* installer.rs:213
InstallDownloadsCompleted ==
    /\ InstallStep = "completed"
    /\ Advance
    /\ UNCHANGED <<ifs, ifs0, icleanup, iwant, iasked, ishow, iprimary, iguard, isrc, itry, ifaults, idone, installFrame>>

\* installer.rs:216-224 cleanup_before_deploy: every target is deleted or
\* its deletion fails and is counted; reading BepInEx can fail
InstallCleanup ==
    /\ InstallStep = "cleanup" /\ icleanup
    /\ \E readable \in BOOLEAN, failed \in SUBSET CleanupTargets(ifs) :
          LET cost == Cardinality(failed) + (IF readable THEN 0 ELSE 1)
          IN /\ ifaults + cost <= MaxFaults
             /\ ifaults' = ifaults + cost
             /\ IF readable
                THEN /\ ifs' = DeleteAll(ifs, CleanupTargets(ifs) \ failed)
                     /\ Advance
                ELSE /\ failed = {}
                     /\ ifs' = ifs
                     /\ Return(InstallErr("cleanup"))
    /\ UNCHANGED <<ifs0, icleanup, iwant, iasked, ishow, iprimary, iguard, isrc, itry, idone, installFrame>>

InstallSkipCleanup ==
    /\ InstallStep = "cleanup" /\ ~icleanup
    /\ Advance
    /\ UNCHANGED <<ifs, ifs0, icleanup, iwant, iasked, ishow, iprimary, iguard, isrc, itry, ifaults, idone, installFrame>>

\* what a deploy step does with the outcome o of its file operations
Deployed(o, why) ==
    /\ ifaults + o.fault <= MaxFaults
    /\ ifaults' = ifaults + o.fault
    /\ ifs' = o.fs
    /\ IF o.res = "ok" THEN Advance ELSE Return(InstallErr(why))

\* installer.rs:229-234 and extractor.rs:213-231 deploy_bepinex
InstallDeployBepInEx ==
    /\ InstallStep = "deploy_bepinex"
    /\ LET patterns == IF Exists(ifs, <<<<"BepInEx">>>>) THEN <<PluginsDir>> ELSE <<>>
       IN \E o \in { Outcome(ifs, "err", 1) } \cup ExtractZip(ifs, BepInExArchive, patterns, 1, 0) :
             Deployed(o, "deploy_bepinex")
    /\ UNCHANGED <<ifs0, icleanup, iwant, iasked, ishow, iprimary, iguard, isrc, itry, idone, installFrame>>

\* installer.rs:237-291 BepInEx/config/BepInEx.cfg
InstallWriteConfig ==
    /\ InstallStep = "config"
    /\ LET dir == <<<<"BepInEx">>, <<"config">>>>
           cfg == dir \o <<<<"BepInEx", "cfg">>>>
           f1 == IF CanMkdirAll(ifs, dir) THEN MkdirAll(ifs, dir) ELSE ifs
           outs == IF ~CanMkdirAll(ifs, dir) THEN { Outcome(ifs, "err", 1) }
                   ELSE IF ishow /\ iprimary THEN { Outcome(f1, "ok", 0) }
                   ELSE PlaceFile(f1, WithExtension(cfg, <<"cfg", "tmp">>), cfg, "cfg")
       IN \E o \in { Outcome(ifs, "err", 1) } \cup outs : Deployed(o, "config")
    /\ UNCHANGED <<ifs0, icleanup, iwant, iasked, ishow, iprimary, iguard, isrc, itry, idone, installFrame>>

\* installer.rs:294 and extractor.rs:234-277 deploy_metamystia
InstallDeployDll ==
    /\ InstallStep = "deploy_dll"
    /\ LET dest == PluginsDir \o <<NewDllName>>
           outs == IF ~Exists(ifs, PluginsDir) THEN { Outcome(ifs, "err", 0) }
                   ELSE PlaceFile(ifs, WithExtension(dest, <<"dll", "tmp">>), dest,
                                  ifs[DownloadDest("dll")].id)
       IN \E o \in outs : Deployed(o, "deploy_dll")
    /\ UNCHANGED <<ifs0, icleanup, iwant, iasked, ishow, iprimary, iguard, isrc, itry, idone, installFrame>>

\* installer.rs:297-299 and extractor.rs:280-325 deploy_resourceex
InstallDeployResourceEx ==
    /\ InstallStep = "deploy_resourceex"
    /\ LET dest == ResourceExPath \o <<NewZipName>>
           outs == IF ~iwant THEN { Outcome(ifs, "ok", 0) }
                   ELSE IF ~CanMkdirAll(ifs, ResourceExPath) THEN { Outcome(ifs, "err", 1) }
                   ELSE { Outcome(ifs, "err", 1) }
                        \cup PlaceFile(MkdirAll(ifs, ResourceExPath),
                                       WithExtension(dest, <<"zip", "tmp">>), dest,
                                       ifs[DownloadDest("resourceex")].id)
       IN \E o \in outs : Deployed(o, "deploy_resourceex")
    /\ UNCHANGED <<ifs0, icleanup, iwant, iasked, ishow, iprimary, iguard, isrc, itry, idone, installFrame>>

\* installer.rs:301-303
InstallFinished ==
    /\ InstallStep = "finished"
    /\ Return(InstallOk)
    /\ UNCHANGED <<ifs, ifs0, icleanup, iwant, iasked, ishow, iprimary, iguard, isrc, itry, ifaults, idone, installFrame>>

\* temp_dir.rs:25-32 Drop for DirGuard: remove_dir_all, result ignored
InstallDropGuard ==
    /\ ipc = "drop"
    /\ \E removed \in BOOLEAN :
          /\ ifaults + (IF removed THEN 0 ELSE 1) <= MaxFaults
          /\ ifaults' = ifaults + (IF removed THEN 0 ELSE 1)
          /\ ifs' = IF removed THEN RemoveTree(ifs, TempDir) ELSE ifs
    /\ ipc' = "done"
    /\ UNCHANGED <<ifs0, ipos, icleanup, iwant, iasked, ishow, iprimary, iguard, isrc, itry, idone, iresult, installFrame>>

(***************************************************************************)
(* execute_deletion (src/src/file_ops.rs:232-263) with delete_file         *)
(* (266-334) and delete_directory (337-405).  Other processes can remove   *)
(* a path at any moment.                                                   *)
(***************************************************************************)
MaxPaths == 2

\* the paths of the model; BepInEx is a directory (delete_directory), the
\* others are files (delete_file); the two functions have the same shape
DeletionPaths == {"BepInEx", "winhttp.dll", "changelog.txt"}

FailedStatuses == {"FileInUse", "PermissionDenied", "Other"}

\* the io errors remove_file / remove_dir_all can return for an existing
\* path: ERROR_SHARING_VIOLATION, PermissionDenied, any other kind
RemoveErrors == {"SharingViolation", "Denied", "Io"}

\* a NotFound error counted as a failure
StatusOfErrorNotFoundFails(err) ==
    CASE err = "SharingViolation" -> "FileInUse"
      [] err = "Denied" -> "PermissionDenied"
      [] OTHER -> "Other"

\* file_ops.rs:289-331, 360-402: the status for the error of the first
\* delete call once the retry after a permission error has not succeeded
StatusOfError(err) ==
    CASE err = "SharingViolation" -> "FileInUse"
      [] err = "Denied" -> "PermissionDenied"
      [] err = "NotFound" -> "Skipped"
      [] OTHER -> "Other"

NoObs == [check |-> "none", remove |-> "none", deleted |-> "none", after |-> "none"]
Seen(b) == IF b THEN "there" ELSE "gone"

DeletionInit ==
    /\ efiles \in UNION { [1..n -> DeletionPaths] : n \in 0..MaxPaths }
    /\ eworld \in [DeletionPaths -> BOOLEAN]
    /\ ei = 1
    /\ epc = "pick"
    /\ eobs = NoObs
    /\ eresults = <<>>

\* the result is pushed and a failure ends the loop
PushStopAtFailure(status) ==
    /\ eresults' = Append(eresults, [path |-> efiles[ei], status |-> status])
    /\ ei' = ei + 1
    /\ epc' = IF status \in FailedStatuses THEN "done" ELSE "pick"

\* file_ops.rs:246-259 the result of the current path is pushed and the loop
\* goes on
Push(status) ==
    /\ eresults' = Append(eresults, [path |-> efiles[ei], status |-> status])
    /\ ei' = ei + 1
    /\ epc' = "pick"

\* file_ops.rs:238-245 the next path: is_dir() chooses the function
DeletionPick ==
    /\ epc = "pick" /\ ei <= Len(efiles)
    /\ epc' = "exists"
    /\ eobs' = NoObs
    /\ UNCHANGED <<efiles, eworld, ei, eresults, deletionFrame>>

\* file_ops.rs:267-272, 338-343 `if !path.exists()`
DeletionExists ==
    /\ epc = "exists"
    /\ eobs' = [eobs EXCEPT !.check = Seen(eworld[efiles[ei]])]
    /\ IF eworld[efiles[ei]]
       THEN /\ epc' = "remove" /\ UNCHANGED <<ei, eresults>>
       ELSE Push("Skipped")
    /\ UNCHANGED <<efiles, eworld, deletionFrame>>

\* file_ops.rs:274, 345 remove_file / remove_dir_all and the arms of the
\* match on its result
DeletionRemove ==
    /\ epc = "remove"
    /\ IF ~eworld[efiles[ei]]
       THEN \* the call returns NotFound
            /\ Push(StatusOfError("NotFound"))
            /\ eobs' = [eobs EXCEPT !.remove = "gone"]
            /\ UNCHANGED eworld
       ELSE \/ /\ epc' = "verify"
               /\ \E gone \in BOOLEAN : eworld' = [eworld EXCEPT ![efiles[ei]] = ~gone]
               /\ eobs' = [eobs EXCEPT !.remove = "there", !.deleted = "first"]
               /\ UNCHANGED <<ei, eresults>>
            \/ /\ \E err \in RemoveErrors \ {"Denied"} : Push(StatusOfError(err))
               /\ eobs' = [eobs EXCEPT !.remove = "there"]
               /\ UNCHANGED eworld
            \/ /\ epc' = "perm"
               /\ eobs' = [eobs EXCEPT !.remove = "there"]
               /\ UNCHANGED <<eworld, ei, eresults>>
    /\ UNCHANGED <<efiles, deletionFrame>>

\* file_ops.rs:275-287, 346-358 `if path.exists()` after an Ok
DeletionVerify ==
    /\ epc = "verify"
    /\ Push(IF eworld[efiles[ei]] THEN "Other" ELSE "Success")
    /\ eobs' = [eobs EXCEPT !.after = Seen(eworld[efiles[ei]])]
    /\ UNCHANGED <<efiles, eworld, deletionFrame>>

\* file_ops.rs:301-313, 372-384: after PermissionDenied, with the metadata
\* readable, the read-only flag is cleared and the delete is tried once
\* more; as for the first call, an Ok of the delete call does not tell
\* whether the path is gone (a delete can be pending while another process
\* holds the file open)
DeletionPermRetry ==
    /\ epc = "perm"
    /\ \E ok \in BOOLEAN :
          IF ok /\ eworld[efiles[ei]]
          THEN /\ \E gone \in BOOLEAN : eworld' = [eworld EXCEPT ![efiles[ei]] = ~gone]
               /\ eobs' = [eobs EXCEPT !.deleted = "retry"]
               /\ Push("Success")
          ELSE /\ eworld' = eworld
               /\ eobs' = eobs
               /\ Push(StatusOfError("Denied"))
    /\ UNCHANGED <<efiles, deletionFrame>>

\* file_ops.rs:262 `results`
DeletionReturn ==
    /\ epc = "pick" /\ ei > Len(efiles)
    /\ epc' = "done"
    /\ UNCHANGED <<efiles, eworld, ei, eobs, eresults, deletionFrame>>

\* another process removes a path
ExternalRemove ==
    /\ epc \notin {"done", "idle"}
    /\ \E p \in DeletionPaths :
          /\ eworld[p]
          /\ eworld' = [eworld EXCEPT ![p] = FALSE]
    /\ UNCHANGED <<efiles, ei, epc, eobs, eresults, deletionFrame>>

(***************************************************************************)
(* Uninstaller::uninstall (src/src/uninstaller.rs:28-188).  The log holds  *)
(* every prompt, every message of the retry loop, every call of            *)
(* execute_deletion with its results, and the summary.                     *)
(***************************************************************************)
MaxFailures == 4

\* UninstallRetryConfig::default (config.rs:83-92)
UninstallAttempts == 3
UninstallBaseDelaySecs == 10
UninstallMultiplier == 2
UninstallMaxDelaySecs == 60

DeletionStatuses == {"Success", "Skipped"} \cup FailedStatuses

\* the targets a scan can find, in the order of the configured target list
UninstallTargets == <<"BepInEx", "winhttp.dll">>

Scans ==
    {s \in UNION {[1..n -> 1..Len(UninstallTargets)] : n \in 0..Len(UninstallTargets)} :
        \A i, j \in DOMAIN s : i < j => s[i] < s[j]}

Paths(results) == [i \in DOMAIN results |-> results[i].path]
Range(s) == {s[i] : i \in DOMAIN s}

\* all_results.iter().find(|r| &r.path == p): the first result of the path
FindStatus(results, p) ==
    LET hits == {i \in DOMAIN results : results[i].path = p}
    IN  IF hits = {} THEN "none"
        ELSE results[CHOOSE i \in hits : \A j \in hits : i <= j].status

\* extract_failed_files (file_ops.rs:408-416)
extract_failed_files(results) ==
    LET IsFailed(r) == r.status \in FailedStatuses
    IN  Paths(SelectSeq(results, IsFailed))

count_resultsNotFailed(results) ==
    << Cardinality({i \in DOMAIN results : results[i].status = "Success"}),
       Cardinality({i \in DOMAIN results : results[i].status = "Other"}),
       Cardinality({i \in DOMAIN results : results[i].status = "Skipped"}) >>

\* count_results (file_ops.rs:419-433): <<success, failed, skipped>>
count_results(results) ==
    << Cardinality({i \in DOMAIN results : results[i].status = "Success"}),
       Cardinality({i \in DOMAIN results : results[i].status \in FailedStatuses}),
       Cardinality({i \in DOMAIN results : results[i].status = "Skipped"}) >>

\* execute_deletion seen from its caller: one result per path, in order, with
\* whatever status the file system gives that path at that moment
ExecuteDeletion(files) ==
    {[i \in DOMAIN files |-> [path |-> files[i], status |-> st[i]]] :
        st \in [DOMAIN files -> DeletionStatuses]}

\* the failed results of one call, counted against MaxFailures
Failures(results) == Cardinality({i \in DOMAIN results : results[i].status \in FailedStatuses})

Counted(results) ==
    /\ ufailures + Failures(results) <= MaxFailures
    /\ ufailures' = ufailures + Failures(results)

\* the failed paths whose first result has the given status (72-85, 111-125)
FailedWith(results, statuses) ==
    LET Has(p) == FindStatus(results, p) \in statuses
    IN  SelectSeq(extract_failed_files(results), Has)

StillInUseAnyFailure(results) == FailedWith(results, FailedStatuses)

StillInUse(results) == FailedWith(results, {"FileInUse"})

\* the new results added, the old ones kept
ReplaceKeepAll(results, list, new) == results \o new

\* all_results.retain(|r| !list.contains(&r.path)); all_results.extend(new)
Replace(results, list, new) ==
    LET Kept(r) == r.path \notin Range(list)
    IN  SelectSeq(results, Kept) \o new

\* the delay of one automatic retry (uninstaller.rs:98-99)
UninstallDelay(k) ==
    Min(UninstallBaseDelaySecs * Pow(UninstallMultiplier, k), UninstallMaxDelaySecs)

has_permission_issue(results) ==
    \E i \in DOMAIN results : results[i].status = "PermissionDenied"

AsksElevationEvenElevated(results, elevated) == has_permission_issue(results)

\* the guard in front of uninstall_ask_elevate_permission (uninstaller.rs:139)
AsksElevation(results, elevated) == has_permission_issue(results) /\ ~elevated

\* retry_list (uninstaller.rs:152-167): both groups, without repetition
RECURSIVE Dedup(_, _)
Dedup(s, seen) ==
    IF s = <<>> THEN <<>>
    ELSE IF Head(s) \in seen THEN Dedup(Tail(s), seen)
    ELSE <<Head(s)>> \o Dedup(Tail(s), seen \cup {Head(s)})

RetryList(elevated, perm, other) ==
    Dedup(IF elevated THEN perm \o other ELSE other \o perm, {})

Ev(ev, files, res, n, ans) == [ev |-> ev, files |-> files, res |-> res, n |-> n, ans |-> ans]
Shown(ev) == Ev(ev, <<>>, <<>>, <<>>, "")
Asked(ev, ans) == Ev(ev, <<>>, <<>>, <<>>, ans)
Deleted(res) == Ev("execute_deletion", Paths(res), res, <<>>, "")

Answers == {"yes", "no", "err"}

UninstallOk == [kind |-> "Ok", error |-> "none"]
UninstallErr(e) == [kind |-> "Err", error |-> e]
UninstallExited == [kind |-> "Exit", error |-> "none"]
UninstallNoResult == [kind |-> "none", error |-> "none"]

UninstallReturn(r) ==
    /\ upc' = "done"
    /\ uresult' = r

UninstallStay ==
    UNCHANGED <<uexisting, uelevated, uinuse, uperm, uother, ustill, uattempt, ufailures>>

UninstallInit ==
    /\ uexisting = <<>>
    /\ uelevated \in BOOLEAN
    /\ uall = <<>>
    /\ uinuse = <<>>
    /\ uperm = <<>>
    /\ uother = <<>>
    /\ ustill = <<>>
    /\ uattempt = 0
    /\ ufailures = 0
    /\ upc = "select"
    /\ ulog = <<>>
    /\ uresult = UninstallNoResult

\* 32-43: the mode question, the scan, and the return when nothing was found
UninstallScan ==
    /\ upc = "select"
    /\ \E ans \in {"mode", "err"} :
        IF ans = "err"
        THEN /\ ulog' = Append(ulog, Asked("uninstall_select_mode", ans))
             /\ UninstallReturn(UninstallErr("Ui"))
             /\ UNCHANGED <<uexisting>>
        ELSE \E s \in Scans :
             LET found == [i \in DOMAIN s |-> UninstallTargets[s[i]]]
                 scanned == ulog \o << Asked("uninstall_select_mode", ans),
                                       Ev("scan_existing_files", found, <<>>, <<>>, "") >>
             IN  /\ uexisting' = found
                 /\ IF found = <<>>
                    THEN /\ ulog' = Append(scanned, Shown("uninstall_no_files_found"))
                         /\ UninstallReturn(UninstallOk)
                    ELSE /\ ulog' = scanned
                         /\ upc' = "confirm"
                         /\ UNCHANGED uresult
    /\ UNCHANGED <<uelevated, uall, uinuse, uperm, uother, ustill, uattempt, ufailures>>
    /\ UNCHANGED uninstallFrame

ConfirmedOnAnyAnswer(ans) == ans \in {"yes", "no"}

\* 49: the answers after which uninstall goes on to delete
Confirmed(ans) == ans = "yes"

\* 46-53: the list of targets and the confirmation question
UninstallConfirm ==
    /\ upc = "confirm"
    /\ \E ans \in Answers :
        /\ ulog' = ulog \o << Ev("uninstall_display_target_files", uexisting, <<>>, <<>>, ""),
                              Asked("uninstall_confirm_deletion", ans) >>
        /\ IF ans = "err" THEN UninstallReturn(UninstallErr("Ui"))
           ELSE IF Confirmed(ans) THEN upc' = "delete" /\ UNCHANGED uresult
           ELSE UninstallReturn(UninstallErr("UserCancelled"))
    /\ UNCHANGED uall
    /\ UninstallStay
    /\ UNCHANGED uninstallFrame

\* 56-59: is_elevated, then the first execute_deletion
UninstallDelete ==
    /\ upc = "delete"
    /\ \E res \in ExecuteDeletion(uexisting) :
        /\ Counted(res)
        /\ uall' = res
        /\ ulog' = Append(ulog, Deleted(res))
    /\ upc' = "classify"
    /\ UNCHANGED <<uexisting, uelevated, uinuse, uperm, uother, ustill, uattempt, uresult>>
    /\ UNCHANGED uninstallFrame

\* 63-91: the head of the loop: leave when nothing failed, else partition
UninstallClassify ==
    /\ upc = "classify"
    /\ IF extract_failed_files(uall) = <<>>
       THEN /\ upc' = "summary"
            /\ UNCHANGED <<uinuse, uperm, uother, ustill, uattempt, ulog>>
       ELSE /\ uinuse' = FailedWith(uall, {"FileInUse"})
            /\ uperm' = FailedWith(uall, {"PermissionDenied"})
            /\ uother' = FailedWith(uall, {"Other"})
            /\ IF uinuse' # <<>>
               THEN /\ ulog' = Append(ulog, Shown("uninstall_files_in_use_warning"))
                    /\ ustill' = uinuse'
                    /\ uattempt' = 0
                    /\ upc' = "in_use"
               ELSE /\ upc' = "elevate"
                    /\ UNCHANGED <<ustill, uattempt, ulog>>
    /\ UNCHANGED <<uexisting, uelevated, uall, ufailures, uresult>>
    /\ UNCHANGED uninstallFrame

\* 93-126: one round of the automatic retry
UninstallInUseRetry ==
    /\ upc = "in_use"
    /\ uattempt < UninstallAttempts
    /\ ustill # <<>>
    /\ \E res \in ExecuteDeletion(ustill) :
        /\ Counted(res)
        /\ uall' = Replace(uall, ustill, res)
        /\ ulog' = ulog \o << Ev("uninstall_wait_before_retry", <<>>, <<>>,
                                 <<UninstallDelay(uattempt), uattempt + 1, UninstallAttempts>>, ""),
                              Ev("sleep", <<>>, <<>>, <<UninstallDelay(uattempt)>>, ""),
                              Deleted(res) >>
    /\ ustill' = StillInUse(uall')
    /\ uattempt' = uattempt + 1
    /\ UNCHANGED <<uexisting, uelevated, uinuse, uperm, uother, upc, uresult>>
    /\ UNCHANGED uninstallFrame

\* 93-96, 128-131: the end of the automatic retry
UninstallInUseDone ==
    /\ upc = "in_use"
    /\ uattempt = UninstallAttempts \/ ustill = <<>>
    /\ upc' = IF extract_failed_files(uall) = <<>> THEN "summary" ELSE "elevate"
    /\ UNCHANGED <<uall, ulog, uresult>>
    /\ UninstallStay
    /\ UNCHANGED uninstallFrame

\* 134-144 when the guard holds: the elevation question, elevate_and_restart
\* (permission.rs:63-115), run_shutdown and exit
UninstallAskElevate ==
    /\ upc = "elevate"
    /\ AsksElevation(uall, uelevated)
    /\ \E ans \in Answers :
        CASE ans = "err" ->
                /\ ulog' = Append(ulog, Asked("uninstall_ask_elevate_permission", ans))
                /\ UninstallReturn(UninstallErr("Ui"))
          [] ans = "no" ->
                /\ ulog' = Append(ulog, Asked("uninstall_ask_elevate_permission", ans))
                /\ upc' = "ask_retry"
                /\ UNCHANGED uresult
          [] ans = "yes" ->
                \E started \in BOOLEAN :
                    IF started
                    THEN /\ ulog' = ulog \o << Asked("uninstall_ask_elevate_permission", ans),
                                               Shown("elevate_and_restart"),
                                               Shown("uninstall_restarting_elevated"),
                                               Shown("exit") >>
                         /\ UninstallReturn(UninstallExited)
                    ELSE /\ ulog' = ulog \o << Asked("uninstall_ask_elevate_permission", ans),
                                               Shown("elevate_and_restart") >>
                         /\ UninstallReturn(UninstallErr("Relaunch"))
    /\ UNCHANGED uall
    /\ UninstallStay
    /\ UNCHANGED uninstallFrame

\* 139 when the guard fails: no question
UninstallNoElevate ==
    /\ upc = "elevate"
    /\ ~AsksElevation(uall, uelevated)
    /\ upc' = "ask_retry"
    /\ UNCHANGED <<uall, ulog, uresult>>
    /\ UninstallStay
    /\ UNCHANGED uninstallFrame

\* 146-173: the manual retry question and the retry of retry_list
UninstallAskRetry ==
    /\ upc = "ask_retry"
    /\ \E ans \in Answers :
        CASE ans = "err" ->
                /\ ulog' = Append(ulog, Asked("uninstall_ask_retry_failures", ans))
                /\ UninstallReturn(UninstallErr("Ui"))
                /\ UNCHANGED <<uall, ufailures>>
          [] ans = "no" ->
                /\ ulog' = Append(ulog, Asked("uninstall_ask_retry_failures", ans))
                /\ upc' = "summary"
                /\ UNCHANGED <<uall, ufailures, uresult>>
          [] ans = "yes" ->
                /\ LET retry_list == RetryList(uelevated, uperm, uother)
                       asked == ulog \o << Asked("uninstall_ask_retry_failures", ans),
                                           Shown("uninstall_retrying_failed_items") >>
                   IN  IF retry_list = <<>>
                       THEN ulog' = asked /\ UNCHANGED <<uall, ufailures>>
                       ELSE \E res \in ExecuteDeletion(retry_list) :
                            /\ Counted(res)
                            /\ uall' = Replace(uall, retry_list, res)
                            /\ ulog' = Append(asked, Deleted(res))
                /\ upc' = "classify"
                /\ UNCHANGED uresult
    /\ UNCHANGED <<uexisting, uelevated, uinuse, uperm, uother, ustill, uattempt>>
    /\ UNCHANGED uninstallFrame

\* 177-187: the summary and Ok
UninstallSummary ==
    /\ upc = "summary"
    /\ ulog' = Append(ulog, Ev("deletion_display_summary", <<>>, <<>>, count_results(uall), ""))
    /\ UninstallReturn(UninstallOk)
    /\ UNCHANGED <<uall, ufailures>>
    /\ UNCHANGED <<uexisting, uelevated, uinuse, uperm, uother, ustill, uattempt>>
    /\ UNCHANGED uninstallFrame

(***************************************************************************)
(* Upgrader::upgrade (src/src/upgrader.rs:193-438).  A version string is   *)
(* the sequence of its dot-separated parts.  The installed versions are    *)
(* what consolidate_installed_by_pattern returns: the printed semver of    *)
(* the newest parsed file, or the whole name of an unparsed file.          *)
(***************************************************************************)
\* Display of a u64 version component
NumberString(n) ==
    CASE n = 0 -> "0"
      [] n = 1 -> "1"
      [] n = 2 -> "2"
      [] n = 5 -> "5"
      [] n = 10 -> "10"

\* upgrader.rs:101 v.to_string()
VersionString(v) == [k \in 1..3 |-> NumberString(v[k])]

\* upgrader.rs:99-101, 120-125: latest_version_str of a latest file name
LatestVersionStr(name) ==
    IF ParseVersion(name) # NoVersion THEN VersionString(ParseVersion(name)) ELSE name

\* consolidate_installed_dlls: None, or the version string of one of the names
NotInstalled == <<>>
InstalledDlls == {NotInstalled} \cup {LatestVersionStr(NameOrder[k]) : k \in {2, 3, 6, 7}}
\* consolidate_installed_resourceex, with unwrap_or_default (upgrader.rs:207)
InstalledResourceex ==
    {NotInstalled, <<"1", "0", "0">>, <<"2", "0", "0">>, <<"ResourceExample-vbeta", "zip">>}

\* the versions the server publishes (semver, spec of the file layout)
RemoteVersions == {<<"1", "0", "0">>, <<"2", "0", "0">>}

DllNeedsUpgradeAlways(current, new) == TRUE

\* upgrader.rs:229-230
DllNeedsUpgrade(current, new) == current # new

\* upgrader.rs:216, 235-237
HasResourceex(current) == current # NotInstalled
ResourceexNeedsUpgrade(current, new) == current # new /\ HasResourceex(current)

UpgradeOk == [kind |-> "Ok", error |-> "none"]
UpgradeErr(e) == [kind |-> "Err", error |-> e]
UpgradeNoResult == [kind |-> "none", error |-> "none"]

UpgradeReturn(r) ==
    /\ gpc' = "done"
    /\ gresult' = r

UpgradeGoes(pc) ==
    /\ gpc' = pc
    /\ UNCHANGED gresult

dll_needs_upgrade == DllNeedsUpgrade(ginstalled.dll, gremote.dll)
resourceex_needs_upgrade == ResourceexNeedsUpgrade(ginstalled.resourceex, gremote.zip)

UpgradeInit ==
    /\ ginstalled \in [dll : InstalledDlls, resourceex : InstalledResourceex]
    /\ gremote \in [dll : RemoteVersions, zip : RemoteVersions]
    /\ gpc = "installed"
    /\ glog = <<>>
    /\ gresult = UpgradeNoResult

\* 197-206: get_installed_versions; no dll installed is an error
UpgradeCheckInstalled ==
    /\ gpc = "installed"
    /\ IF ginstalled.dll = NotInstalled
       THEN UpgradeReturn(UpgradeErr("Other"))
       ELSE UpgradeGoes("version_info")
    /\ UNCHANGED <<ginstalled, gremote, glog>>
    /\ UNCHANGED upgradeFrame

\* 222-249: get_version_info, the two comparisons, the return when both are current
UpgradeCompare ==
    /\ gpc = "version_info"
    /\ \E fetched \in BOOLEAN :
        IF ~fetched
        THEN UpgradeReturn(UpgradeErr("NetworkError")) /\ UNCHANGED glog
        ELSE /\ glog' = Append(glog, "get_version_info")
             /\ IF ~dll_needs_upgrade /\ ~resourceex_needs_upgrade
                THEN UpgradeReturn(UpgradeOk)
                ELSE UpgradeGoes("announce")
    /\ UNCHANGED <<ginstalled, gremote>>
    /\ UNCHANGED upgradeFrame

\* 252-276: the release notes and the question that follows them
UpgradeAnnounce ==
    /\ gpc = "announce"
    /\ IF dll_needs_upgrade
       THEN \E shown \in {"some", "none", "err"}, ans \in {"yes", "no", "err"} :
               IF shown = "some" /\ ans = "no" THEN UpgradeReturn(UpgradeErr("UserCancelled"))
               ELSE IF shown = "some" /\ ans = "err" THEN UpgradeReturn(UpgradeErr("Ui"))
               ELSE UpgradeGoes("prepare")
       ELSE UpgradeGoes("prepare")
    /\ UNCHANGED <<ginstalled, gremote, glog>>
    /\ UNCHANGED upgradeFrame

\* 279-292: get_share_code and create_temp_dir_with_guard
UpgradePrepare ==
    /\ gpc = "prepare"
    /\ \E got \in {"ok", "share_code", "temp_dir"} :
        IF got = "ok" THEN UpgradeGoes("download_dll")
        ELSE UpgradeReturn(UpgradeErr(got))
    /\ UNCHANGED <<ginstalled, gremote, glog>>
    /\ UNCHANGED upgradeFrame

\* 294-305: temp_dll_path
UpgradeDownloadDll ==
    /\ gpc = "download_dll"
    /\ IF dll_needs_upgrade
       THEN /\ glog' = Append(glog, "download_metamystia")
            /\ \E ok \in BOOLEAN :
                IF ok THEN UpgradeGoes("download_resourceex")
                ELSE UpgradeReturn(UpgradeErr("DownloadFailed"))
       ELSE UpgradeGoes("download_resourceex") /\ UNCHANGED glog
    /\ UNCHANGED <<ginstalled, gremote>>
    /\ UNCHANGED upgradeFrame

\* 307-319: temp_resourceex_path
UpgradeDownloadResourceex ==
    /\ gpc = "download_resourceex"
    /\ IF HasResourceex(ginstalled.resourceex) /\ resourceex_needs_upgrade
       THEN /\ glog' = Append(glog, "download_resourceex")
            /\ \E ok \in BOOLEAN :
                IF ok THEN UpgradeGoes("install_dll")
                ELSE UpgradeReturn(UpgradeErr("DownloadFailed"))
       ELSE UpgradeGoes("install_dll") /\ UNCHANGED glog
    /\ UNCHANGED <<ginstalled, gremote>>
    /\ UNCHANGED upgradeFrame

\* 321-383: backups, copy and atomic_rename_or_copy of the downloaded dll
UpgradeInstallDll ==
    /\ gpc = "install_dll"
    /\ IF "download_metamystia" \in Range(glog)
       THEN /\ glog' = Append(glog, "install_dll")
            /\ \E ok \in BOOLEAN :
                IF ok THEN UpgradeGoes("install_resourceex")
                ELSE UpgradeReturn(UpgradeErr("Io"))
       ELSE UpgradeGoes("install_resourceex") /\ UNCHANGED glog
    /\ UNCHANGED <<ginstalled, gremote>>
    /\ UNCHANGED upgradeFrame

\* 385-428: backups, copy and atomic_rename_or_copy of the downloaded zip
UpgradeInstallResourceex ==
    /\ gpc = "install_resourceex"
    /\ IF "download_resourceex" \in Range(glog)
       THEN /\ glog' = Append(glog, "install_resourceex")
            /\ \E ok \in BOOLEAN :
                IF ok THEN UpgradeGoes("cleanup")
                ELSE UpgradeReturn(UpgradeErr("Io"))
       ELSE UpgradeGoes("cleanup") /\ UNCHANGED glog
    /\ UNCHANGED <<ginstalled, gremote>>
    /\ UNCHANGED upgradeFrame

\* 430-437: cleanup_old_files and Ok
UpgradeCleanup ==
    /\ gpc = "cleanup"
    /\ glog' = Append(glog, "cleanup_old_files")
    /\ UpgradeReturn(UpgradeOk)
    /\ UNCHANGED <<ginstalled, gremote>>
    /\ UNCHANGED upgradeFrame

(***************************************************************************)
(* run_shutdown (src/src/shutdown.rs:78-151), register_cleanup (60-75),    *)
(* the two handlers installed by ensure_handlers (17-57) and the end of    *)
(* main (src/src/main.rs:79-82).  Each callback runs on a thread of its    *)
(* own; the process ends when main returns or a thread calls exit.         *)
(***************************************************************************)
MaxCallbacks == 2

Threads == {"main", "ctrlc", "console"}
Handlers == {"ctrlc", "console"}
CallbackIds == 1..MaxCallbacks

SwapReturnsFalse(started) == FALSE

\* shutdown.rs:79 what SHUTDOWN_STARTED.swap(true, SeqCst) returns
SwapReturns(started) == started

At(t, pc) == hexited = "no" /\ hpc[t] = pc
Goes(t, pc) == hpc' = [hpc EXCEPT ![t] = pc]

ShutdownInit ==
    /\ hstarted = FALSE
    /\ hcallbacks = <<>>
    /\ hpc = [t \in Threads |-> IF t = "main" THEN "run" ELSE "off"]
    /\ htaken = [t \in Threads |-> <<>>]
    /\ hcb = [c \in CallbackIds |-> "unregistered"]
    /\ hinvoked = [c \in CallbackIds |-> 0]
    /\ hby = [c \in CallbackIds |-> "none"]
    /\ horder = <<>>
    /\ htimedout = FALSE
    /\ hsignal = FALSE
    /\ hexited = "no"

\* shutdown.rs:60-75 register_cleanup, called by the running operation
RegisterCleanup ==
    /\ At("main", "run")
    /\ \E c \in CallbackIds :
        /\ hcb[c] = "unregistered"
        /\ \A b \in CallbackIds : b < c => hcb[b] # "unregistered"
        /\ hcallbacks' = Append(hcallbacks, c)
        /\ hcb' = [hcb EXCEPT ![c] = "registered"]
    /\ UNCHANGED <<hstarted, hpc, htaken, hinvoked, hby, horder, htimedout, hsignal, hexited>>
    /\ UNCHANGED shutdownFrame

\* main.rs:80 main calls run_shutdown when the operation is over
MainCallsShutdown ==
    /\ At("main", "run")
    /\ Goes("main", "swap")
    /\ UNCHANGED <<hstarted, hcallbacks, htaken, hcb, hinvoked, hby, horder, htimedout, hsignal, hexited>>
    /\ UNCHANGED shutdownFrame

\* shutdown.rs:19-22, 30-44: a signal runs a handler on a thread of its own;
\* the handlers exist once register_cleanup has called ensure_handlers
SignalArrives(t) ==
    /\ t \in Handlers
    /\ At(t, "off")
    /\ \E c \in CallbackIds : hcb[c] # "unregistered"
    /\ Goes(t, "swap")
    /\ hsignal' = TRUE
    /\ UNCHANGED <<hstarted, hcallbacks, htaken, hcb, hinvoked, hby, horder, htimedout, hexited>>
    /\ UNCHANGED shutdownFrame

\* shutdown.rs:79-81
ShutdownSwap(t) ==
    /\ At(t, "swap")
    /\ horder' = Append(horder, t)
    /\ hstarted' = TRUE
    /\ Goes(t, IF SwapReturns(hstarted) THEN "returned" ELSE "take")
    /\ UNCHANGED <<hcallbacks, htaken, hcb, hinvoked, hby, htimedout, hsignal, hexited>>
    /\ UNCHANGED shutdownFrame

\* shutdown.rs:85-99 take(&mut *guard) under the lock
ShutdownTake(t) ==
    /\ At(t, "take")
    /\ htaken' = [htaken EXCEPT ![t] = hcallbacks]
    /\ hcallbacks' = <<>>
    /\ Goes(t, IF hcallbacks = <<>> THEN "flush" ELSE "spawn")
    /\ UNCHANGED <<hstarted, hcb, hinvoked, hby, horder, htimedout, hsignal, hexited>>
    /\ UNCHANGED shutdownFrame

\* shutdown.rs:107-115 one thread per callback
ShutdownSpawn(t) ==
    /\ At(t, "spawn")
    /\ hcb' = [c \in CallbackIds |-> IF c \in Range(htaken[t]) THEN "spawned" ELSE hcb[c]]
    /\ hby' = [c \in CallbackIds |-> IF c \in Range(htaken[t]) THEN t ELSE hby[c]]
    /\ Goes(t, "wait")
    /\ UNCHANGED <<hstarted, hcallbacks, htaken, hinvoked, horder, htimedout, hsignal, hexited>>
    /\ UNCHANGED shutdownFrame

\* shutdown.rs:110-113 the spawned thread invokes the callback and reports
CallbackRuns(c) ==
    /\ hexited = "no"
    /\ hcb[c] = "spawned"
    /\ hcb' = [hcb EXCEPT ![c] = "finished"]
    /\ hinvoked' = [hinvoked EXCEPT ![c] = @ + 1]
    /\ UNCHANGED <<hstarted, hcallbacks, hpc, htaken, hby, horder, htimedout, hsignal, hexited>>
    /\ UNCHANGED shutdownFrame

\* shutdown.rs:120-141 the wait loop ends with every callback reported
ShutdownWaitDone(t) ==
    /\ At(t, "wait")
    /\ \A c \in Range(htaken[t]) : hcb[c] = "finished"
    /\ Goes(t, "flush")
    /\ UNCHANGED <<hstarted, hcallbacks, htaken, hcb, hinvoked, hby, horder, htimedout, hsignal, hexited>>
    /\ UNCHANGED shutdownFrame

\* shutdown.rs:122-124, 135-137 the wait loop ends at the deadline
ShutdownWaitTimeout(t) ==
    /\ At(t, "wait")
    /\ \E c \in Range(htaken[t]) : hcb[c] # "finished"
    /\ htimedout' = TRUE
    /\ Goes(t, "flush")
    /\ UNCHANGED <<hstarted, hcallbacks, htaken, hcb, hinvoked, hby, horder, hsignal, hexited>>
    /\ UNCHANGED shutdownFrame

\* shutdown.rs:101-104, 143-150 metrics::shutdown with what is left of the timeout
ShutdownFlush(t) ==
    /\ At(t, "flush")
    /\ Goes(t, "returned")
    /\ UNCHANGED <<hstarted, hcallbacks, htaken, hcb, hinvoked, hby, horder, htimedout, hsignal, hexited>>
    /\ UNCHANGED shutdownFrame

\* main.rs:82 main returns res: the process ends
MainReturns ==
    /\ At("main", "returned")
    /\ hexited' = "main"
    /\ UNCHANGED <<hstarted, hcallbacks, hpc, htaken, hcb, hinvoked, hby, horder, htimedout, hsignal>>
    /\ UNCHANGED shutdownFrame

\* shutdown.rs:21 std::process::exit(0) in the ctrlc handler
CtrlcExits ==
    /\ At("ctrlc", "returned")
    /\ hexited' = "ctrlc"
    /\ UNCHANGED <<hstarted, hcallbacks, hpc, htaken, hcb, hinvoked, hby, horder, htimedout, hsignal>>
    /\ UNCHANGED shutdownFrame

\* shutdown.rs:40 console_handler returns 1
ConsoleReturns ==
    /\ At("console", "returned")
    /\ Goes("console", "handled")
    /\ UNCHANGED <<hstarted, hcallbacks, htaken, hcb, hinvoked, hby, horder, htimedout, hsignal, hexited>>
    /\ UNCHANGED shutdownFrame

(***************************************************************************)
(* The copy loop of write_response_to_file (src/src/downloader.rs:259-297).*)
(* Time is counted in milliseconds since `start`; a read takes as long as  *)
(* the network makes it take, and a sleep lasts at least what was asked.   *)
(***************************************************************************)
MaxReads == 4

\* downloader.rs:24
RATE_LIMIT == 128 * 1024
\* downloader.rs:259
BufLen == Min(RATE_LIMIT, 8192)

\* what one read can return, how long it can take, how much a sleep overshoots
ReadSizes == {1, 4096, BufLen}
ReadMillis == {0, 40}
Oversleep == {0, 3}

\* downloader.rs:284-286 expected_secs > elapsed
AheadOfRate(downloaded, elapsedMs) == downloaded * 1000 > RATE_LIMIT * elapsedMs

\* downloader.rs:288-289 the sleep of a test build
SleepMillisTest(downloaded, elapsedMs) == 1

\* downloader.rs:287-292 ceil(max((expected_secs - elapsed) * 1000, 1))
SleepMillis(downloaded, elapsedMs) ==
    LET owed == downloaded * 1000 - RATE_LIMIT * elapsedMs
        ms == (owed + RATE_LIMIT - 1) \div RATE_LIMIT
    IN  IF ms < 1 THEN 1 ELSE ms

RateLimitInit ==
    /\ tlimit \in BOOLEAN
    /\ tdownloaded = 0
    /\ tnow = 0
    /\ treads = 0
    /\ tpc = "read"

\* 264-280: a read that returns data, written and added to downloaded
CopyRead ==
    /\ tpc = "read"
    /\ treads < MaxReads
    /\ \E n \in ReadSizes, took \in ReadMillis :
        /\ tdownloaded' = tdownloaded + n
        /\ tnow' = tnow + took
    /\ treads' = treads + 1
    /\ tpc' = IF tlimit THEN "limit" ELSE "read"
    /\ UNCHANGED tlimit
    /\ UNCHANGED rateLimitFrame

\* 269-271: the read returns 0
CopyEnd ==
    /\ tpc = "read"
    /\ \E took \in ReadMillis : tnow' = tnow + took
    /\ tpc' = "done"
    /\ UNCHANGED <<tlimit, tdownloaded, treads>>
    /\ UNCHANGED rateLimitFrame

\* 266-268, 273-278: the read or the write fails
CopyFails ==
    /\ tpc = "read"
    /\ tpc' = "failed"
    /\ UNCHANGED <<tlimit, tdownloaded, tnow, treads>>
    /\ UNCHANGED rateLimitFrame

\* 283-295 when the bytes are ahead of the rate
CopySleep ==
    /\ tpc = "limit"
    /\ AheadOfRate(tdownloaded, tnow)
    /\ \E over \in Oversleep : tnow' = tnow + SleepMillis(tdownloaded, tnow) + over
    /\ tpc' = "read"
    /\ UNCHANGED <<tlimit, tdownloaded, treads>>
    /\ UNCHANGED rateLimitFrame

\* 286 when they are not
CopyNoSleep ==
    /\ tpc = "limit"
    /\ ~AheadOfRate(tdownloaded, tnow)
    /\ tpc' = "read"
    /\ UNCHANGED <<tlimit, tdownloaded, tnow, treads>>
    /\ UNCHANGED rateLimitFrame

(***************************************************************************)
(* The same copy loop (src/src/downloader.rs:259-297) with rate_limit set, *)
(* fed by a source that delivers full buffers at once except for reads     *)
(* that wait StallMillis for data.  Every read is logged with its time.    *)
(***************************************************************************)
MaxBurstReads == 18
MaxStalls == 1
StallMillis == 2000

BurstInit ==
    /\ bdownloaded = 0
    /\ bnow = 0
    /\ breads = 0
    /\ bstalls = 0
    /\ bpc = "read"
    /\ blog = <<>>

\* 264-281: a read that returns a full buffer, after a stall or at once
BurstRead ==
    /\ bpc = "read"
    /\ breads < MaxBurstReads
    /\ \E stalled \in BOOLEAN :
        /\ stalled => bstalls < MaxStalls
        /\ bstalls' = IF stalled THEN bstalls + 1 ELSE bstalls
        /\ bnow' = IF stalled THEN bnow + StallMillis ELSE bnow
    /\ bdownloaded' = bdownloaded + BufLen
    /\ blog' = Append(blog, [at |-> bnow', bytes |-> BufLen])
    /\ breads' = breads + 1
    /\ bpc' = "limit"
    /\ UNCHANGED burstFrame

\* 269-271: the read returns 0
BurstEnd ==
    /\ bpc = "read"
    /\ bpc' = "done"
    /\ UNCHANGED <<bdownloaded, bnow, breads, bstalls, blog>>
    /\ UNCHANGED burstFrame

\* 283-295 when the bytes are ahead of the rate
BurstSleep ==
    /\ bpc = "limit"
    /\ AheadOfRate(bdownloaded, bnow)
    /\ bnow' = bnow + SleepMillis(bdownloaded, bnow)
    /\ bpc' = "read"
    /\ UNCHANGED <<bdownloaded, breads, bstalls, blog>>
    /\ UNCHANGED burstFrame

\* 286 when they are not
BurstNoSleep ==
    /\ bpc = "limit"
    /\ ~AheadOfRate(bdownloaded, bnow)
    /\ bpc' = "read"
    /\ UNCHANGED <<bdownloaded, bnow, breads, bstalls, blog>>
    /\ UNCHANGED burstFrame

(***************************************************************************)
(* One interactive run (src/src/main.rs:85-158) and the network requests   *)
(* of its Downloader instances (src/src/downloader.rs:72-180, 470-562).    *)
(* Every Downloader::new (main.rs:92, main.rs:145 through Upgrader::new,   *)
(* installer.rs:22, upgrader.rs:23) makes an instance with its own, empty  *)
(* cached_version.  The Ui display sinks return Ok.                        *)
(***************************************************************************)
MaxPublished == 2

Instances == {"run", "check", "install", "upgrade"}

SessionOk == [tag |-> "Ok", why |-> "done"]
SessionErr(w) == [tag |-> "Err", why |-> w]
SessionExit == [tag |-> "Exit", why |-> "exit(0)"]
SessionNoResult == [tag |-> "None", why |-> "running"]

Request(kind, by, ok) == [kind |-> kind, by |-> by, ok |-> ok]

\* main.rs:92 Downloader::new, downloader.rs:40-50 cached_version: Mutex::new(None)
SessionInit ==
    /\ scache = [d \in Instances |-> 0]
    /\ sremote = 1
    /\ spc = "version"
    /\ sinst = "run"
    /\ spurpose = "step"
    /\ stry = 0
    /\ sreq = <<>>
    /\ sgot = <<>>
    /\ sresult = SessionNoResult

\* the server publishes a new version while the program runs
RemotePublishes ==
    /\ spc \notin {"idle", "done"}
    /\ sremote < MaxPublished
    /\ sremote' = sremote + 1
    /\ UNCHANGED <<scache, spc, sinst, spurpose, stry, sreq, sgot, sresult, sessionFrame>>

\* where the caller of get_version_info goes on an Ok: main.rs:94-97,
\* installer.rs:142-159, upgrader.rs:226-277
AfterVersion(d) == IF d = "run" THEN "selfupdate" ELSE "share"

\* downloader.rs:73-79 a cached value is returned, otherwise with_retry starts
GetVersionInfo ==
    /\ spc = "version"
    /\ IF scache[sinst] # 0
       THEN /\ sgot' = Append(sgot, [by |-> sinst, val |-> scache[sinst]])
            /\ spc' = AfterVersion(sinst)
            /\ stry' = stry
       ELSE /\ sgot' = sgot
            /\ spc' = "vrequest"
            /\ stry' = 0
    /\ UNCHANGED <<scache, sremote, sinst, spurpose, sreq, sresult, sessionFrame>>

\* downloader.rs:79-86 with net.rs:12-52 and downloader.rs:89-134: one request
\* of try_get_version_info; an Ok is stored in this instance's cache; the
\* last Err is returned: main.rs:98-101 goes on without version information,
\* installer.rs:142 and upgrader.rs:226 return it
VersionRequest ==
    /\ spc = "vrequest"
    /\ \E ok \in BOOLEAN :
          /\ sreq' = Append(sreq, Request("version", sinst, ok))
          /\ IF ok
             THEN /\ scache' = [scache EXCEPT ![sinst] = sremote]
                  /\ sgot' = Append(sgot, [by |-> sinst, val |-> sremote])
                  /\ spc' = AfterVersion(sinst)
                  /\ UNCHANGED <<stry, sresult>>
             ELSE /\ UNCHANGED <<scache, sgot>>
                  /\ IF stry < Attempts - 1
                     THEN /\ stry' = stry + 1
                          /\ UNCHANGED <<spc, sresult>>
                     ELSE /\ stry' = stry
                          /\ IF sinst = "run"
                             THEN spc' = "game" /\ sresult' = sresult
                             ELSE spc' = "done" /\ sresult' = SessionErr("version")
    /\ UNCHANGED <<sremote, sinst, spurpose, sessionFrame>>

\* main.rs:108-121 the self update is offered when the versions differ;
\* perform_self_update calls download_manager on the instance of main.rs:92
AskSelfUpdate ==
    /\ spc = "selfupdate"
    /\ \E answer \in {"same", "yes", "no", "err"} :
          CASE answer = "yes" -> /\ spc' = "share"
                                 /\ spurpose' = "manager"
                                 /\ sresult' = sresult
            [] answer = "err" -> /\ spc' = "done"
                                 /\ spurpose' = spurpose
                                 /\ sresult' = SessionErr("ui")
            [] OTHER -> /\ spc' = "game"
                        /\ UNCHANGED <<spurpose, sresult>>
    /\ UNCHANGED <<scache, sremote, sinst, stry, sreq, sgot, sessionFrame>>

\* downloader.rs:137-139 get_share_code is a with_retry around
\* try_get_share_code and nothing else
GetShareCode ==
    /\ spc = "share"
    /\ spc' = "srequest"
    /\ stry' = 0
    /\ UNCHANGED <<scache, sremote, sinst, spurpose, sreq, sgot, sresult, sessionFrame>>

\* where the caller of get_share_code goes on an Ok: downloader.rs:549-562
\* (true: the download of the manager goes well), installer.rs:159-196,
\* upgrader.rs:277, downloader.rs:499-514 and 526-538
AfterShare(purpose, d, downloaded) ==
    CASE purpose = "manager" -> IF downloaded THEN "exit" ELSE "game"
      [] purpose = "step" -> IF d = "install" THEN "bepinex" ELSE "ok"
      [] OTHER -> IF downloaded THEN "ok" ELSE "err"

\* downloader.rs:141-180 with net.rs:12-52: one request of try_get_share_code
ShareRequest ==
    /\ spc = "srequest"
    /\ \E ok \in BOOLEAN, downloaded \in BOOLEAN :
          /\ sreq' = Append(sreq, Request("share", sinst, ok))
          /\ LET goes == IF ok THEN AfterShare(spurpose, sinst, downloaded)
                         ELSE IF stry < Attempts - 1 THEN "srequest"
                         ELSE IF spurpose = "manager" THEN "game" ELSE "err"
             IN /\ stry' = (IF ~ok /\ stry < Attempts - 1 THEN stry + 1 ELSE stry)
                /\ spc' = (IF goes \in {"exit", "ok", "err"} THEN "done" ELSE goes)
                /\ sresult' = (CASE goes = "exit" -> SessionExit
                                 [] goes = "ok" -> SessionOk
                                 [] goes = "err" -> SessionErr("download")
                                 [] OTHER -> sresult)
    /\ UNCHANGED <<scache, sremote, sinst, spurpose, sgot, sessionFrame>>

\* main.rs:124-141 check_game_directory and check_game_running
CheckGame ==
    /\ spc = "game"
    /\ \E ok \in BOOLEAN :
          IF ok THEN spc' = "check" /\ sresult' = sresult
          ELSE spc' = "done" /\ sresult' = SessionErr("game")
    /\ UNCHANGED <<scache, sremote, sinst, spurpose, stry, sreq, sgot, sessionFrame>>

\* main.rs:144-149 Upgrader::new makes one more Downloader; has_updates is
\* given the version information of main.rs:93 and sends nothing
DisplayUpdates ==
    /\ spc = "check"
    /\ spc' = "menu"
    /\ UNCHANGED <<scache, sremote, sinst, spurpose, stry, sreq, sgot, sresult, sessionFrame>>

\* main.rs:152-157, 250-296: run_install and run_upgrade make an Installer or
\* an Upgrader, each with a Downloader of its own, and call get_version_info
SelectOperation ==
    /\ spc = "menu"
    /\ \E op \in {"install", "upgrade", "uninstall", "err"} :
          IF op \in {"install", "upgrade"}
          THEN /\ sinst' = op
               /\ spurpose' = "step"
               /\ spc' = "version"
               /\ sresult' = sresult
          ELSE /\ spc' = "done"
               /\ sresult' = (IF op = "err" THEN SessionErr("ui") ELSE SessionOk)
               /\ UNCHANGED <<sinst, spurpose>>
    /\ UNCHANGED <<scache, sremote, stry, sreq, sgot, sessionFrame>>

\* downloader.rs:483-540 download_bepinex: when the primary source fails, at
\* the request (526) or while the body is written (499), get_share_code is
\* called again on the same instance
DownloadBepinex ==
    /\ spc = "bepinex"
    /\ \E primary \in BOOLEAN :
          IF primary
          THEN /\ spc' = "done"
               /\ sresult' = SessionOk
               /\ spurpose' = spurpose
          ELSE /\ spc' = "share"
               /\ spurpose' = "fallback"
               /\ sresult' = sresult
    /\ UNCHANGED <<scache, sremote, sinst, stry, sreq, sgot, sessionFrame>>

(***************************************************************************)
(* One call of backup_with_index (src/src/file_ops.rs:86-119) with the     *)
(* arguments of its callers: upgrader.rs:48,59 through                     *)
(* consolidate_installed_by_pattern and upgrader.rs:336,397, where the     *)
(* path matches MetaMystia-*.dll (f.dll, g.0.dll) and the suffix is        *)
(* "dll.old".                                                              *)
(***************************************************************************)
BackupPaths == { <<<<"f", "dll">>>>, <<<<"g", "0", "dll">>>> }
BackupSuffixes == { <<"dll", "old">> }

BackupNoResult == [res |-> "none", backup |-> NoPath]

BackupInit ==
    \E path \in BackupPaths, suffix \in BackupSuffixes, there \in BOOLEAN :
    \E taken \in SUBSET ({ BackupName(path, suffix, i) : i \in 0..MaxOldBackups } \ {path}) :
        LET names == taken \cup (IF there THEN {path} ELSE {})
            f == [q \in names |-> IF q = path THEN Complete("new") ELSE Complete("old")]
        IN /\ kfs0 = f
           /\ kfs = f
           /\ kpath = path
           /\ ksuffix = suffix
           /\ kpc = "call"
           /\ kres = BackupNoResult

\* file_ops.rs:86-119 the whole call, with every way atomic_rename_or_copy
\* can go
BackupCall ==
    /\ kpc = "call"
    /\ \E o \in BackupWithIndex(kfs, kpath, ksuffix) :
          /\ kfs' = o.fs
          /\ kres' = [res |-> o.res, backup |-> o.backup]
    /\ kpc' = "done"
    /\ UNCHANGED <<kfs0, kpath, ksuffix, backupFrame>>

(***************************************************************************)
(* scan_existing_files (src/src/file_ops.rs:197-229) over the targets of   *)
(* UninstallMode (src/src/config.rs:7-28).  The two modes scan the same    *)
(* game directory side by side.                                            *)
(***************************************************************************)
Modes == {"Light", "Full"}

GlobTarget(dir, match, isDir) == [glob |-> TRUE, dir |-> dir, match |-> match, is_dir |-> isDir]
PathTarget(name, isDir) == [glob |-> FALSE, path |-> <<name>>, is_dir |-> isDir]

\* config.rs:7-10
LIGHT_TARGETS ==
    << GlobTarget(PluginsPath, "MetaMystia-*.dll", FALSE),
       GlobTarget(ResourceExPath, "ResourceExample-*.zip", FALSE) >>

\* config.rs:12-20
FULL_TARGETS ==
    << PathTarget(<<"BepInEx">>, TRUE),
       PathTarget(<<"", "doorstop_version">>, FALSE),
       PathTarget(<<"changelog", "txt">>, FALSE),
       PathTarget(<<"doorstop_config", "ini">>, FALSE),
       PathTarget(<<"MinHook", "x64", "dll">>, FALSE),
       PathTarget(<<"winhttp", "dll">>, FALSE),
       PathTarget(<<"ResourceEx">>, TRUE) >>

\* config.rs:23-28
get_targets(mode) == IF mode = "Light" THEN LIGHT_TARGETS ELSE FULL_TARGETS

\* the glob pattern on a file name
GlobPattern(match, name) ==
    IF match = "MetaMystia-*.dll" THEN GlobName(name) ELSE GlobZipName(name)

\* the paths a game directory of the model can hold, in the order glob yields
\* them, and the kinds each can have
ScanCatalogue ==
    << <<<<"BepInEx">>>>,
       <<<<"BepInEx">>, <<"plugins">>>>,
       <<<<"BepInEx">>, <<"plugins">>, <<"MetaMystia-v1", "0", "0", "dll">>>>,
       <<<<"BepInEx">>, <<"plugins">>, <<"MetaMystia-v2", "0", "0", "dll">>>>,
       <<<<"BepInEx">>, <<"plugins">>, <<"Other", "dll">>>>,
       <<<<"Game", "exe">>>>,
       <<<<"ResourceEx">>>>,
       <<<<"ResourceEx">>, <<"ResourceExample-v1", "0", "0", "zip">>>>,
       <<<<"changelog", "txt">>>>,
       <<<<"winhttp", "dll">>>> >>
ScanKinds(k) ==
    CASE k \in {1, 10} -> {"none", "file", "dir"}
      [] k \in {2, 7} -> {"none", "dir"}
      [] k = 3 -> {"none", "file", "dir"}
      [] k = 6 -> {"file"}
      [] OTHER -> {"none", "file"}

\* a choice of kinds is a tree when every entry lies in a directory
IsTree(kinds) ==
    \A k \in DOMAIN ScanCatalogue :
        kinds[k] # "none" =>
            \A j \in DOMAIN ScanCatalogue :
                (ScanCatalogue[j] \in Ancestors(ScanCatalogue[k]) /\ j # k) => kinds[j] = "dir"

TreeOf(kinds) ==
    [p \in { ScanCatalogue[k] : k \in { j \in DOMAIN ScanCatalogue : kinds[j] # "none" } } |->
        LET k == CHOOSE j \in DOMAIN ScanCatalogue : ScanCatalogue[j] = p
        IN IF kinds[k] = "dir" THEN Dir ELSE Complete("file")]

ScanInit ==
    /\ \E kinds \in [DOMAIN ScanCatalogue -> {"none", "file", "dir"}] :
          /\ \A k \in DOMAIN ScanCatalogue : kinds[k] \in ScanKinds(k)
          /\ IsTree(kinds)
          /\ zfs = TreeOf(kinds)
    /\ zi = [m \in Modes |-> 1]
    /\ zfound = [m \in Modes |-> <<>>]

\* every entry taken, whatever its kind
KindAgreesAlways(isDirectory, entryIsDir) == TRUE

\* file_ops.rs:217 (is_directory && entry.is_dir()) || (!is_directory && entry.is_file())
\* and file_ops.rs:224-225 is_dir == is_directory
KindAgrees(isDirectory, entryIsDir) ==
    (isDirectory /\ entryIsDir) \/ (~isDirectory /\ ~entryIsDir)

\* file_ops.rs:209-229 scan_target
scan_target(fs, t, existing) ==
    IF t.glob
    THEN existing \o
         SelectSeq(ScanCatalogue,
                   LAMBDA p : /\ Exists(fs, p)
                              /\ Len(p) = Len(t.dir) + 1 /\ Front(p) = t.dir
                              /\ GlobPattern(t.match, Last(p))
                              /\ KindAgrees(t.is_dir, fs[p] = Dir))
    ELSE IF Exists(fs, t.path) /\ KindAgrees(t.is_dir, fs[t.path] = Dir)
    THEN Append(existing, t.path)
    ELSE existing

\* file_ops.rs:201-203 one iteration of `for &(pattern, is_dir) in targets`
ScanTarget(m) ==
    /\ zi[m] <= Len(get_targets(m))
    /\ zfound' = [zfound EXCEPT ![m] = scan_target(zfs, get_targets(m)[zi[m]], @)]
    /\ zi' = [zi EXCEPT ![m] = @ + 1]
    /\ UNCHANGED <<zfs, scanFrame>>

(***************************************************************************)
(* Upgrader::cleanup_old_files (src/src/upgrader.rs:141-167) with          *)
(* remove_glob_files (src/src/file_ops.rs:131-154), run on the file system *)
(* a consolidation left.  ui.upgrade_deleted and ui.upgrade_delete_failed  *)
(* return Ok (ui.rs:894-905, cli_ui.rs:178-186).                           *)
(***************************************************************************)
\* upgrader.rs:142, 153
PassDir(pass) == IF pass = "dll" THEN PluginsPath ELSE ResourceExPath

\* the globs MetaMystia-*.dll.old* and ResourceExample-*.zip.old* on a name
GlobOldName(pass, name) ==
    /\ Len(name) >= 3
    /\ \E k \in 2..(Len(name) - 1) :
          name[k] = (IF pass = "dll" THEN "dll" ELSE "zip") /\ name[k + 1] = "old"
    /\ IF pass = "dll"
       THEN name[1] \in {"MetaMystia-v1", "MetaMystia-v2", "MetaMystia-v10",
                         "MetaMystia-vbeta", "MetaMystia-1"}
       ELSE name[1] \in {"ResourceExample-v1", "ResourceExample-v2"}

\* file_ops.rs:136-138 the entries of glob(pattern)
OldMatches(fs, pass) ==
    { p \in DOMAIN fs : /\ Len(p) = Len(PassDir(pass)) + 1
                        /\ Front(p) = PassDir(pass)
                        /\ GlobOldName(pass, Last(p)) }

\* the entries as the iterator yields them, each once
SeqOf(S) == CHOOSE s \in [1..Cardinality(S) -> S] : \A i, j \in 1..Cardinality(S) : s[i] = s[j] => i = j

CleanupInit ==
    /\ lfs = EmptyFs
    /\ lpc = "wait"
    /\ lpass = "dll"
    /\ lqueue = <<>>
    /\ lmatched = {}
    /\ lremoved = <<>>
    /\ lfailed = <<>>
    /\ lattempts = <<>>
    /\ lreported = <<>>
    /\ lresult = "none"

\* upgrader.rs:141 cleanup_old_files is called on what the consolidation left
CleanupStart ==
    /\ lpc = "wait"
    /\ cpc = "done"
    /\ lfs' = cfs
    /\ lpc' = "glob"
    /\ UNCHANGED <<lpass, lqueue, lmatched, lremoved, lfailed, lattempts, lreported, lresult, cleanupFrame>>

\* upgrader.rs:143-145, 154-157: a directory that does not exist is passed
\* over; file_ops.rs:132-137: the glob of the pattern
CleanupGlob ==
    /\ lpc = "glob"
    /\ IF Exists(lfs, PassDir(lpass))
       THEN /\ lqueue' = SeqOf(OldMatches(lfs, lpass))
            /\ lmatched' = lmatched \cup OldMatches(lfs, lpass)
            /\ lpc' = "remove"
            /\ UNCHANGED <<lpass, lresult>>
       ELSE /\ UNCHANGED <<lqueue, lmatched>>
            /\ IF lpass = "dll"
               THEN lpass' = "zip" /\ lpc' = "glob" /\ lresult' = lresult
               ELSE lpass' = lpass /\ lpc' = "done" /\ lresult' = "Ok"
    /\ UNCHANGED <<lfs, lremoved, lfailed, lattempts, lreported, cleanupFrame>>

\* the loop ended by the first failure
RemainingAfterAbort(queue, ok) == IF ok THEN Tail(queue) ELSE <<>>

\* file_ops.rs:137 `for entry in entries.flatten()`: the next entry, whatever
\* became of this one
RemainingAfter(queue, ok) == Tail(queue)

\* file_ops.rs:138-150 one entry: remove_file (the entries are files), its
\* result pushed on removed or on failed
CleanupRemove ==
    /\ lpc = "remove" /\ lqueue # <<>>
    /\ \E ok \in BOOLEAN :
          LET entry == Head(lqueue)
          IN /\ lfs' = (IF ok THEN Remove(lfs, entry) ELSE lfs)
             /\ lremoved' = (IF ok THEN Append(lremoved, entry) ELSE lremoved)
             /\ lfailed' = (IF ok THEN lfailed ELSE Append(lfailed, entry))
             /\ lattempts' = Append(lattempts, [path |-> entry, ok |-> ok])
             /\ lqueue' = RemainingAfter(lqueue, ok)
    /\ UNCHANGED <<lpc, lpass, lmatched, lreported, lresult, cleanupFrame>>

\* upgrader.rs:146-151, 158-163: the removed entries are reported, then the
\* failed ones; upgrader.rs:166 Ok(()) after the second directory
CleanupReport ==
    /\ lpc = "remove" /\ lqueue = <<>>
    /\ lreported' = lreported
                    \o [k \in DOMAIN lremoved |-> [what |-> "deleted", path |-> lremoved[k]]]
                    \o [k \in DOMAIN lfailed |-> [what |-> "failed", path |-> lfailed[k]]]
    /\ lremoved' = <<>>
    /\ lfailed' = <<>>
    /\ IF lpass = "dll"
       THEN lpass' = "zip" /\ lpc' = "glob" /\ lresult' = lresult
       ELSE lpass' = lpass /\ lpc' = "done" /\ lresult' = "Ok"
    /\ UNCHANGED <<lfs, lqueue, lmatched, lattempts, cleanupFrame>>

(***************************************************************************)
(* Uninstaller::uninstall (src/src/uninstaller.rs:28-188) under the        *)
(* non-interactive CLI Ui (src/src/cli_ui.rs:276-330): every question is   *)
(* answered yes (290-292, 312-314, 321-323) and every message returns Ok.  *)
(* The file system gives every call of execute_deletion any status for     *)
(* every path.  No log is kept here, so that a run that repeats itself is  *)
(* a cycle of states.                                                      *)
(***************************************************************************)
CliStay == UNCHANGED <<yexisting, yelevated, yperm, yother, ystill, yattempt>>

CliInit ==
    /\ yexisting = <<>>
    /\ yelevated \in BOOLEAN
    /\ yall = <<>>
    /\ yperm = <<>>
    /\ yother = <<>>
    /\ ystill = <<>>
    /\ yattempt = 0
    /\ ypc = "scan"
    /\ yresult = UninstallNoResult

\* 37-53: the scan, the return when nothing was found, the confirmation
\* (cli_ui.rs:290-292 Ok(true))
CliScan ==
    /\ ypc = "scan"
    /\ \E s \in Scans :
          LET found == [i \in DOMAIN s |-> UninstallTargets[s[i]]]
          IN /\ yexisting' = found
             /\ IF found = <<>>
                THEN ypc' = "done" /\ yresult' = UninstallOk
                ELSE ypc' = "delete" /\ yresult' = yresult
    /\ UNCHANGED <<yelevated, yall, yperm, yother, ystill, yattempt, cliFrame>>

\* 56-59
CliDelete ==
    /\ ypc = "delete"
    /\ \E res \in ExecuteDeletion(yexisting) : yall' = res
    /\ ypc' = "classify"
    /\ UNCHANGED <<yresult, cliFrame>>
    /\ CliStay

\* 63-91
CliClassify ==
    /\ ypc = "classify"
    /\ IF extract_failed_files(yall) = <<>>
       THEN /\ ypc' = "summary"
            /\ UNCHANGED <<yperm, yother, ystill, yattempt>>
       ELSE /\ yperm' = FailedWith(yall, {"PermissionDenied"})
            /\ yother' = FailedWith(yall, {"Other"})
            /\ IF FailedWith(yall, {"FileInUse"}) # <<>>
               THEN /\ ystill' = FailedWith(yall, {"FileInUse"})
                    /\ yattempt' = 0
                    /\ ypc' = "in_use"
               ELSE /\ ypc' = "elevate"
                    /\ UNCHANGED <<ystill, yattempt>>
    /\ UNCHANGED <<yexisting, yelevated, yall, yresult, cliFrame>>

\* 93-126 one automatic retry
CliInUseRetry ==
    /\ ypc = "in_use"
    /\ yattempt < UninstallAttempts
    /\ ystill # <<>>
    /\ \E res \in ExecuteDeletion(ystill) : yall' = Replace(yall, ystill, res)
    /\ ystill' = StillInUse(yall')
    /\ yattempt' = yattempt + 1
    /\ UNCHANGED <<yexisting, yelevated, yperm, yother, ypc, yresult, cliFrame>>

\* 93-96, 128-131
CliInUseDone ==
    /\ ypc = "in_use"
    /\ yattempt = UninstallAttempts \/ ystill = <<>>
    /\ ypc' = IF extract_failed_files(yall) = <<>> THEN "summary" ELSE "elevate"
    /\ UNCHANGED <<yall, yresult, cliFrame>>
    /\ CliStay

\* 134-144: cli_ui.rs:312-314 answers yes, so a permission failure of a
\* process that is not elevated ends in elevate_and_restart: an exit, or
\* its error
CliElevate ==
    /\ ypc = "elevate"
    /\ IF AsksElevation(yall, yelevated)
       THEN \E started \in BOOLEAN :
               /\ ypc' = "done"
               /\ yresult' = (IF started THEN UninstallExited ELSE UninstallErr("Relaunch"))
       ELSE ypc' = "ask_retry" /\ yresult' = yresult
    /\ UNCHANGED <<yall, cliFrame>>
    /\ CliStay

\* 146-173: cli_ui.rs:321-323 answers yes; the retry list holds the
\* permission and the other failures, not the ones in use
CliRetry ==
    /\ ypc = "ask_retry"
    /\ LET retry_list == RetryList(yelevated, yperm, yother)
       IN IF retry_list = <<>>
          THEN yall' = yall
          ELSE \E res \in ExecuteDeletion(retry_list) : yall' = Replace(yall, retry_list, res)
    /\ ypc' = "classify"
    /\ UNCHANGED <<yresult, cliFrame>>
    /\ CliStay

\* 177-187
CliSummary ==
    /\ ypc = "summary"
    /\ ypc' = "done"
    /\ yresult' = UninstallOk
    /\ UNCHANGED <<yall, cliFrame>>
    /\ CliStay

(***************************************************************************)
(* Upgrader::upgrade (src/src/upgrader.rs:193-438) from the download of    *)
(* the new plugin DLL to its installation (294-381), on the file system.   *)
(* The installed DLL was found (get_installed_versions returned Some), its *)
(* version differs from the new one, and the Ui display sinks return Ok.   *)
(***************************************************************************)
NewDllPath == PluginsPath \o <<NewDllName>>

\* upgrader.rs:356 new_dll_path.with_extension("dll.tmp")
NewDllTmp == WithExtension(NewDllPath, <<"dll", "tmp">>)

\* the installed DLLs upgrade can find: one the consolidation left, and one
\* more that it could not back up
DllUpgradeInstalled ==
    { {PluginsPath \o <<OldDllName>>},
      {PluginsPath \o <<NameOrder[4]>>},
      {PluginsPath \o <<OldDllName>>, PluginsPath \o <<NameOrder[4]>>} }

DllUpgradeInit ==
    /\ \E files \in DllUpgradeInstalled, olds \in SUBSET (0..(MaxOldBackups - 1)) :
          LET base == MkdirAll(EmptyFs, PluginsPath)
              kept == { BackupName(PluginsPath \o <<OldDllName>>, DllBackupSuffix, i) : i \in olds }
          IN nfs = [q \in DOMAIN base \cup files \cup kept |->
                       IF q \in DOMAIN base THEN Dir
                       ELSE IF q \in files THEN ContentOf(q)
                       ELSE Complete("kept")]
    /\ nfs0 = nfs
    /\ npc = "download"
    /\ nqueue = <<>>
    /\ nbackups = {}
    /\ nreported = {}
    /\ nresult = "none"

\* upgrader.rs:294-303 download_metamystia(..)? into the temporary directory
DllUpgradeDownload ==
    /\ npc = "download"
    /\ \E ok \in BOOLEAN :
          IF ok THEN npc' = "glob" /\ nresult' = nresult
          ELSE npc' = "done" /\ nresult' = "Err"
    /\ UNCHANGED <<nfs0, nfs, nqueue, nbackups, nreported, dllUpgradeFrame>>

\* upgrader.rs:325-334 every match of MetaMystia-*.dll but the new file name
\* is to be backed up
DllUpgradeGlob ==
    /\ npc = "glob"
    /\ nqueue' = SortedUnparsed(GlobMatches(nfs, PluginsPath) \ {NewDllPath})
    /\ npc' = "backup"
    /\ UNCHANGED <<nfs0, nfs, nbackups, nreported, nresult, dllUpgradeFrame>>

\* upgrader.rs:336-341 with file_ops.rs:157-165: one path of to_backup; an
\* Err is reported and the loop goes on
DllUpgradeBackup ==
    /\ npc = "backup" /\ nqueue # <<>>
    /\ \E o \in BackupWithIndex(nfs, Head(nqueue), DllBackupSuffix) :
          /\ nfs' = o.fs
          /\ nbackups' = (IF o.res = "ok" THEN nbackups \cup {o.backup} ELSE nbackups)
          /\ nreported' = (IF o.res = "ok" THEN nreported ELSE nreported \cup {Head(nqueue)})
    /\ nqueue' = Tail(nqueue)
    /\ UNCHANGED <<nfs0, npc, nresult, dllUpgradeFrame>>

\* upgrader.rs:343-362 the plugins directory exists; std::fs::copy of the
\* downloaded file to the .dll.tmp name: an error leaves what was written
\* and is returned
DllUpgradeCopy ==
    /\ npc = "backup" /\ nqueue = <<>>
    /\ \E written \in 0..FileChunks :
          /\ nfs' = (IF written = 0 THEN nfs
                     ELSE Put(nfs, NewDllTmp, [id |-> "new", len |-> written]))
          /\ IF written = FileChunks
             THEN npc' = "place" /\ nresult' = nresult
             ELSE npc' = "done" /\ nresult' = "Err"
    /\ UNCHANGED <<nfs0, nqueue, nbackups, nreported, dllUpgradeFrame>>

\* upgrader.rs:363-369 atomic_rename_or_copy(&tmp_new, &new_dll_path)?
DllUpgradePlace ==
    /\ npc = "place"
    /\ \E o \in AtomicOutcomes(AtomicStart(nfs, NewDllTmp, NewDllPath)) :
          /\ nfs' = o.fs
          /\ IF o.res = "ok"
             THEN npc' = "installed" /\ nresult' = nresult
             ELSE npc' = "done" /\ nresult' = "Err"
    /\ UNCHANGED <<nfs0, nqueue, nbackups, nreported, dllUpgradeFrame>>

\* upgrader.rs:371-438 the rest of upgrade leaves the active DLL alone: the
\* resource bundle is installed in ResourceEx and cleanup_old_files removes
\* MetaMystia-*.dll.old* only; either can end upgrade with an Err
DllUpgradeFinish ==
    /\ npc = "installed"
    /\ \E ok \in BOOLEAN : nresult' = (IF ok THEN "Ok" ELSE "Err")
    /\ npc' = "done"
    /\ UNCHANGED <<nfs0, nfs, nqueue, nbackups, nreported, dllUpgradeFrame>>

(***************************************************************************)
(* VersionInfo::bepinex_filename and VersionInfo::bepinex_version          *)
(* (src/src/model.rs:40-61) on an encoded field "<version>#<filename>".    *)
(***************************************************************************)
MaxFieldLen == 3
FieldChars == {"5", "z", "#", " "}

RECURSIVE Strings(_)
Strings(n) ==
    IF n = 0 THEN {<<>>}
    ELSE LET shorter == Strings(n - 1)
         IN shorter \cup { Append(t, c) : t \in shorter, c \in FieldChars }

\* str::split('#'): the pieces between separators, at least one piece
RECURSIVE Split(_)
Split(str) ==
    IF \A k \in 1..Len(str) : str[k] # "#" THEN <<str>>
    ELSE LET k == CHOOSE j \in 1..Len(str) :
                      str[j] = "#" /\ \A h \in 1..(j - 1) : str[h] # "#"
         IN <<SubSeq(str, 1, k - 1)>> \o Split(SubSeq(str, k + 1, Len(str)))

\* str::trim
RECURSIVE Trim(_)
Trim(str) ==
    IF str = <<>> THEN str
    ELSE IF Head(str) = " " THEN Trim(Tail(str))
    ELSE IF str[Len(str)] = " " THEN Trim(SubSeq(str, 1, Len(str) - 1))
    ELSE str

FieldNoResult == [res |-> "none", val |-> <<>>]

\* .split('#').nth(n).map(|s| s.trim()).ok_or_else(|| InvalidVersionInfo)
NthField(str, n) ==
    LET pieces == Split(str)
    IN IF Len(pieces) > n
       THEN [res |-> "Ok", val |-> Trim(pieces[n + 1])]
       ELSE [res |-> "InvalidVersionInfo", val |-> <<>>]

VersionInfoInit ==
    /\ bep_in_ex \in Strings(MaxFieldLen)
    /\ mcall = "none"
    /\ mresult = FieldNoResult

\* model.rs:40-49
bepinex_filename ==
    /\ mcall = "none"
    /\ mcall' = "bepinex_filename"
    /\ mresult' = NthField(bep_in_ex, 1)
    /\ UNCHANGED bep_in_ex
    /\ UNCHANGED versionInfoFrame

\* model.rs:52-61
bepinex_version ==
    /\ mcall = "none"
    /\ mcall' = "bepinex_version"
    /\ mresult' = NthField(bep_in_ex, 0)
    /\ UNCHANGED bep_in_ex
    /\ UNCHANGED versionInfoFrame

(***************************************************************************)
(* The sleeps of the two users of the retry policy: get_json_with_retry /  *)
(* get_response_with_retry (src/src/net.rs:12-145), whose operation calls  *)
(* check_response_status, and the automatic retry loop for occupied files  *)
(* (src/src/uninstaller.rs:87-125).                                        *)
(***************************************************************************)
MaxInUse == 3
RetryAfterLimit == 30

\* the Retry-After header of a response: -1 when the header is absent or
\* is not an unsigned number (parse_retry_after_seconds gives None)
RetryAfterHeaders == {-1, 0, 1, RetryAfterLimit, RetryAfterLimit + 1}

Responses ==
    {[status |-> 200, retry_after |-> -1], [status |-> 500, retry_after |-> -1]}
        \cup {[status |-> 429, retry_after |-> h] : h \in RetryAfterHeaders}

\* net.rs:59-90: the result and the seconds slept inside the call
check_response_status(resp) ==
    IF resp.status = 200 THEN [res |-> "Ok", slept |-> <<>>]
    ELSE IF resp.status = 429 /\ resp.retry_after >= 0 /\ resp.retry_after <= RetryAfterLimit
    THEN [res |-> "Err", slept |-> <<[by |-> "retry_after", secs |-> resp.retry_after]>>]
    ELSE [res |-> "Err", slept |-> <<>>]

BackoffInit ==
    /\ wkind \in {"network", "uninstall"}
    /\ wpc = IF wkind = "network" THEN "call" ELSE "loop"
    /\ wattempt = 0
    /\ wstill \in IF wkind = "network" THEN {0} ELSE 1..MaxInUse
    /\ wsleeps = <<>>
    /\ wresult = "none"

\* net.rs:19 `match f()`, f being the closure of net.rs:100-127 / 138-147:
\* send, check_response_status, and the choice of the arm
NetworkRequest ==
    /\ wpc = "call"
    /\ \E resp \in Responses :
          LET c == check_response_status(resp)
          IN /\ wsleeps' = wsleeps \o c.slept
             /\ IF c.res = "Ok"
                THEN wpc' = "done" /\ wresult' = "Ok"
                ELSE IF wattempt < Attempts - 1
                THEN wpc' = "retry" /\ wresult' = wresult
                ELSE wpc' = "done" /\ wresult' = "Err"
    /\ UNCHANGED <<wkind, wattempt, wstill, backoffFrame>>

\* net.rs:21-43 the arm `Err(e) if attempt < cfg.attempts - 1`
NetworkRetry ==
    /\ wpc = "retry"
    /\ wsleeps' = Append(wsleeps, [by |-> "backoff", secs |-> RetryDelay(wattempt)])
    /\ wattempt' = wattempt + 1
    /\ wpc' = "call"
    /\ UNCHANGED <<wkind, wstill, wresult, backoffFrame>>

\* uninstaller.rs:93-125 one iteration of `for attempt in 0..cfg.attempts`:
\* the wait, then execute_deletion on the paths still in use
UninstallRetryRound ==
    /\ wpc = "loop"
    /\ wattempt < UninstallAttempts
    /\ wstill > 0
    /\ wsleeps' = Append(wsleeps, [by |-> "backoff", secs |-> UninstallDelay(wattempt)])
    /\ wstill' \in 0..wstill
    /\ wattempt' = wattempt + 1
    /\ UNCHANGED <<wkind, wpc, wresult, backoffFrame>>

\* uninstaller.rs:93-96 the range is exhausted, or `break`
UninstallRetryExit ==
    /\ wpc = "loop"
    /\ wattempt = UninstallAttempts \/ wstill = 0
    /\ wpc' = "done"
    /\ wresult' = IF wstill = 0 THEN "Ok" ELSE "Err"
    /\ UNCHANGED <<wkind, wattempt, wstill, wsleeps, backoffFrame>>

(***************************************************************************)
(* backup_with_index (src/src/file_ops.rs:86-119) step by step: the        *)
(* existence check of the chosen name and the call of                      *)
(* atomic_rename_or_copy are two steps, and another process can create a   *)
(* file between them.                                                      *)
(***************************************************************************)
MaxCreates == 1

RacePath == <<<<"f", "dll">>>>
RaceBackup(idx) == BackupName(RacePath, DllBackupSuffix, idx)

RaceInit ==
    /\ \E there \in BOOLEAN, taken \in SUBSET { RaceBackup(0) } :
          LET names == taken \cup (IF there THEN {RacePath} ELSE {})
              f == [q \in names |-> IF q = RacePath THEN Complete("new") ELSE Complete("old")]
          IN /\ jfs = f
             /\ jkept = [q \in taken |-> f[q]]
    /\ jidx = 0
    /\ jpc = "enter"
    /\ jfailed = 0
    /\ jmade = 0
    /\ jres = BackupNoResult

\* file_ops.rs:87-92 `if !path.exists()`
BackupEnter ==
    /\ jpc = "enter"
    /\ IF Exists(jfs, RacePath)
       THEN jpc' = "check" /\ jres' = jres
       ELSE jpc' = "done" /\ jres' = [res |-> "err", backup |-> NoPath]
    /\ UNCHANGED <<jfs, jkept, jidx, jfailed, jmade, raceFrame>>

\* file_ops.rs:96-105 the name for idx and `if backup.exists()`
BackupCheck ==
    /\ jpc = "check"
    /\ IF Exists(jfs, RaceBackup(jidx))
       THEN jidx' = jidx + 1 /\ jpc' = jpc
       ELSE jidx' = jidx /\ jpc' = "move"
    /\ UNCHANGED <<jfs, jkept, jfailed, jmade, jres, raceFrame>>

\* file_ops.rs:107-117 atomic_rename_or_copy(path, &backup) and the arms of
\* the match on its result
BackupMove ==
    /\ jpc = "move"
    /\ \E o \in AtomicOutcomes(AtomicStart(jfs, RacePath, RaceBackup(jidx))) :
          /\ jfs' = o.fs
          /\ IF o.res = "ok"
             THEN /\ jpc' = "done"
                  /\ jres' = [res |-> "ok", backup |-> RaceBackup(jidx)]
                  /\ UNCHANGED <<jidx, jfailed>>
             ELSE /\ jfailed < MaxFaults
                  /\ jfailed' = jfailed + 1
                  /\ IF Exists(o.fs, RaceBackup(jidx))
                     THEN jidx' = jidx + 1 /\ jpc' = "check" /\ jres' = jres
                     ELSE /\ jidx' = jidx
                          /\ jpc' = "done"
                          /\ jres' = [res |-> "err", backup |-> NoPath]
    /\ UNCHANGED <<jkept, jmade, raceFrame>>

\* another process creates a file under one of the backup names
ExternalCreate ==
    /\ jpc \in {"enter", "check", "move"}
    /\ jmade < MaxCreates
    /\ \E i \in 0..(jidx + 1), written \in 1..FileChunks :
          /\ ~Exists(jfs, RaceBackup(i))
          /\ jfs' = Put(jfs, RaceBackup(i), [id |-> "theirs", len |-> written])
          /\ jkept' = Put(jkept, RaceBackup(i), [id |-> "theirs", len |-> written])
    /\ jmade' = jmade + 1
    /\ UNCHANGED <<jidx, jpc, jfailed, jres, raceFrame>>

(***************************************************************************)
(* Claims about with_retry                                                 *)
(***************************************************************************)
FailedFirst(i, k) ==
    /\ Len(hist[i]) >= k
    /\ \A n \in 1..k : hist[i][n].tag = "Err"

\* C2: for any k < attempts, when the operation failed on its first k
\* invocations and succeeded on invocation k+1, with_retry has returned that
\* success and exactly k retry notifications were emitted.
C2_SuccessAfterKFailures ==
    \A i \in Runs : \A k \in 0..(Attempts - 1) :
        (Len(hist[i]) = k + 1 /\ FailedFirst(i, k) /\ hist[i][k + 1].tag = "Ok")
            => /\ rpc[i] = "done"
               /\ rresult[i] = OkOf(k + 1)
               /\ Len(notes[i]) = k

\* HTTP 500, 500, 200 under the 3-attempt policy
C2_Witness ==
    \E i \in Runs :
        /\ rpc[i] = "done"
        /\ Len(hist[i]) = 3 /\ FailedFirst(i, 2) /\ hist[i][3].tag = "Ok"
        /\ rresult[i] = OkOf(3)
        /\ Len(notes[i]) = 2

\* C3: with_retry invokes the operation at most `attempts` times, returns the
\* first success immediately, and when all `attempts` invocations failed it
\* returns the error of the last invocation, with no notification and no
\* sleep after that final failure.
C3_BoundedAttemptsLastError ==
    \A i \in Runs :
        /\ Len(hist[i]) <= Attempts
        /\ rpc[i] # "unreachable"
        /\ \A n \in 1..Len(hist[i]) :
              hist[i][n].tag = "Ok"
                  => n = Len(hist[i]) /\ rpc[i] = "done" /\ rresult[i] = hist[i][n]
        /\ (Len(hist[i]) = Attempts /\ FailedFirst(i, Attempts))
              => /\ rpc[i] = "done"
                 /\ rresult[i] = ErrOf(Attempts)
                 /\ Len(notes[i]) = Attempts - 1
                 /\ Len(slept[i]) = Attempts - 1

C3_Witness ==
    \E i \in Runs :
        /\ rpc[i] = "done"
        /\ Len(hist[i]) = Attempts /\ FailedFirst(i, Attempts)
        /\ rresult[i] = ErrOf(Attempts)

\* C4: the retry notification callback does not affect control flow: for the
\* same sequence of operation outcomes, the number of invocations of the
\* operation and the returned result are the same whatever the callback
\* returns.
C4_CallbackDoesNotAffectControlFlow ==
    (rpc[1] = "done" /\ rpc[2] = "done")
        => /\ Len(hist[1]) = Len(hist[2])
           /\ rresult[1] = rresult[2]

(***************************************************************************)
(* Claims about atomic_rename_or_copy                                      *)
(***************************************************************************)
\* C1: atomic_rename_or_copy(src, dst) is all-or-nothing: in every state
\* during and after the call, also when a step fails, dst is what it was
\* before the call (old content or absent) or holds the complete content of
\* src; it never holds a partial copy.
C1_DstOldOrComplete ==
    ContentAt(ac.fs, ac.dst) \in { ContentAt(fs0, ac.dst), ContentAt(fs0, ac.src) }

\* the copy fallback ran and placed the complete content over an old dst
C1_Witness ==
    /\ ac.pc = "done" /\ ac.res = "ok"
    /\ ac.n = FileChunks
    /\ Exists(fs0, ac.dst)
    /\ ContentAt(ac.fs, ac.dst) = Complete("new")

(***************************************************************************)
(* Claims about the extractor                                              *)
(***************************************************************************)
Returned == xpc \in {"ok", "err"}
Unsafe(e) == IsAbsolute(e.path) \/ \E k \in 1..Len(e.path) : e.path[k] = ParentDir
HasUnsafe == \E k \in 1..Len(archive) : Unsafe(archive[k])
FirstUnsafe == CHOOSE k \in 1..Len(archive) :
                   Unsafe(archive[k]) /\ \A j \in 1..(k - 1) : ~Unsafe(archive[j])
ChangedPaths == { q \in DOMAIN xfs \cup DOMAIN xfs0 : ContentAt(xfs, q) # ContentAt(xfs0, q) }

\* the paths the extraction of entry e may touch: the entry's path, the
\* directories above it and its temp names
TouchedBy(e) ==
    Ancestors(e.path)
    \cup { WithExtension(e.path, TmpExt(k)) : k \in 0..Len(TmpSuffix) }

\* C7: if the archive contains an entry with an absolute path or a `..`
\* component, at whatever position, extract returns an error and no file has
\* been written to the destination by that call.
C7_UnsafeEntryNothingWritten ==
    (Returned /\ HasUnsafe) => (xpc = "err" /\ xfs = xfs0)

\* C7 (amended): if the archive contains an entry with an absolute path or
\* a `..` component, extract returns an error, and neither the first such
\* entry nor any entry after it has been written; what changed in the
\* destination comes from the entries that precede it in the archive (nothing
\* at all when it is the first entry).
C7_UnsafeEntryRejectsRest ==
    (Returned /\ HasUnsafe)
        => /\ xpc = "err"
           /\ xi <= FirstUnsafe
           /\ ChangedPaths \subseteq UNION { TouchedBy(archive[k]) : k \in 1..(FirstUnsafe - 1) }
           /\ (FirstUnsafe = 1 => xfs = xfs0)

\* a safe entry was extracted, then the unsafe entry behind it was rejected
C7_Witness ==
    /\ xpc = "err" /\ HasUnsafe
    /\ xi = FirstUnsafe /\ xi > 1
    /\ Len(extracted) > 0
    /\ xfs # xfs0

Reaches(e) == e.readable /\ EnclosedName(e.path) /\ IsSafePath(e.path) /\ ~e.link

ConsolidateDone == cpc = "done"

\* the parsed candidate of fs whose version is greater than every other one
MaxParsed(fs) ==
    CHOOSE p \in Parsed(fs) :
        \A q \in Parsed(fs) \ {p} :
            VersionLess(ParseVersion(Last(q)), ParseVersion(Last(p)))

\* q, as it was when consolidate was called, is held by one of its backups
HasBackup(q) ==
    \E i \in 0..MaxOldBackups :
        ContentAt(cfs, BackupName(q, DllBackupSuffix, i)) = cfs0[q]

InPlace(q) == ContentAt(cfs, q) = cfs0[q]

ReturnsLatestInPlace ==
    /\ cresult.tag = "some"
    /\ cresult.path = MaxParsed(cfs0)
    /\ cresult.version = ParseVersion(Last(MaxParsed(cfs0)))
    /\ InPlace(cresult.path)

\* C9: when at least one candidate file name parses as a semantic version,
\* consolidate returns the maximum version by semantic-version ordering
\* together with the path of that file, leaves that file in place under its
\* original name, and renames every other parsed candidate to a backup.
C9_ReturnsMaxRenamesOtherParsed ==
    (ConsolidateDone /\ Parsed(cfs0) # {}) =>
        /\ ReturnsLatestInPlace
        /\ \A q \in Parsed(cfs0) \ {cresult.path} : ~Exists(cfs, q) /\ HasBackup(q)

\* C9 (amended): when at least one candidate file name parses, consolidate
\* returns the maximum version with the path of that file and leaves that
\* file in place; every other parsed candidate either has a backup holding
\* its content, or its backup failed, was reported, and the file is still in
\* place unchanged.
C9_ReturnsMaxBacksUpOtherParsed ==
    (ConsolidateDone /\ Parsed(cfs0) # {}) =>
        /\ ReturnsLatestInPlace
        /\ \A q \in Parsed(cfs0) \ {cresult.path} :
              \/ HasBackup(q) /\ q \notin cfailed
              \/ q \in cfailed /\ InPlace(q)

C9_Witness ==
    /\ ConsolidateDone
    /\ Cardinality(Parsed(cfs0)) >= 3
    /\ cresult.version = <<10, 0, 0>>
    /\ \E q \in Parsed(cfs0) : q \in cfailed
    /\ \E q \in Parsed(cfs0) : ~Exists(cfs, q) /\ HasBackup(q)

\* C10: when at least one candidate parses as a semantic version, every
\* candidate other than the latest, including every candidate whose version
\* cannot be parsed, has been demoted to an indexed backup when consolidate
\* returns (a candidate whose backup failed and was reported aside).
C10_EveryOtherCandidateDemoted ==
    (ConsolidateDone /\ Parsed(cfs0) # {}) =>
        \A q \in Candidates(cfs0) \ {cresult.path} : HasBackup(q) \/ q \in cfailed

(***************************************************************************)
(* Claims about download_metamystia                                        *)
(***************************************************************************)
DownloadDone == dpc = "done"
Count(log, s) == Cardinality(Calls(log, s))

\* the GitHub attempt is over and has failed: the lookup failed, no asset
\* matched, or the download failed after its retries
GithubFailed ==
    \/ dret["lookup"].tag = "Err"
    \/ dret["lookup"].tag = "Ok" /\ ~dasset
    \/ dret["github"].tag = "Err"

\* with_retry gave source s its whole budget: it returned Err only after
\* Attempts failed invocations, notified before each retry, and its delays
\* start from the first one
OwnBudget(s) ==
    /\ Count(dlog, s) <= Attempts
    /\ dret[s].tag = "Err" => Count(dlog, s) = Attempts
    /\ dret[s].tag # "None" => Len(dnotes[s]) = Count(dlog, s) - 1
    /\ \A k \in 1..Len(dnotes[s]) : dnotes[s][k] = RetryDelay(k - 1)

\* C5: download_metamystia tries the GitHub source first and attempts the
\* mirror if and only if the GitHub attempt failed (release lookup failed, no
\* matching asset, or the download failed after its retries); each source
\* gets its own full retry budget; the source-switch notification is emitted
\* exactly once, before the mirror attempt; the call succeeds if and only if
\* one of the two sources succeeded.
C5_GithubFirstMirrorIffFailed ==
    /\ \A k \in Calls(dlog, "mirror") : GithubFailed /\ Calls(dlog, "lookup") # {}
    /\ \A k \in Calls(dlog, "mirror"), j \in Calls(dlog, "lookup") \cup Calls(dlog, "github") : j < k
    /\ \A k \in Calls(dlog, "github"), j \in Calls(dlog, "lookup") : j < k
    /\ \A s \in Sources : OwnBudget(s)
    /\ Count(dlog, "switch") <= 1
    /\ \A k \in Calls(dlog, "mirror") : \E j \in Calls(dlog, "switch") : j < k
    /\ DownloadDone =>
          /\ Calls(dlog, "mirror") # {} <=> GithubFailed
          /\ Count(dlog, "switch") = 1 <=> Calls(dlog, "mirror") # {}
          /\ dresult.tag = "Ok" <=> (dret["github"].tag = "Ok" \/ dret["mirror"].tag = "Ok")
          /\ dresult.tag \in {"Ok", "Err"}

C5_Witness ==
    /\ DownloadDone
    /\ Count(dlog, "github") = Attempts
    /\ dret["github"].tag = "Err"
    /\ Count(dlog, "mirror") = Attempts
    /\ dret["mirror"].tag = "Ok"
    /\ dresult.tag = "Ok"

(***************************************************************************)
(* Claims about install                                                    *)
(***************************************************************************)
\* the game directory without the temp work directory
OutsideTemp(fs) == RemoveTree(fs, TempDir)

\* every artifact this install needs has been downloaded
DownloadsComplete ==
    ({"bepinex", "dll"} \cup (IF iwant THEN {"resourceex"} ELSE {})) \subseteq idone

InstallReturned == ipc \in {"drop", "done"}

\* C6: if install fails because every source of a required artifact
\* (framework package or plugin DLL) is exhausted, install returns an error
\* and nothing in the game directory outside the temp work directory has
\* been deleted, created or modified by that install: all downloads complete
\* before the cleanup and deploy steps start.
C6_ExhaustedSourcesLeaveGameUntouched ==
    /\ ~DownloadsComplete => OutsideTemp(ifs) = OutsideTemp(ifs0)
    /\ (InstallReturned /\ ~DownloadsComplete) => iresult.tag = "Err"
    /\ iresult = InstallErr("exhausted") =>
          /\ InstallReturned /\ ~DownloadsComplete
          /\ OutsideTemp(ifs) = OutsideTemp(ifs0)

C6_Witness ==
    /\ ipc = "done"
    /\ iresult = InstallErr("exhausted")
    /\ idone = {"bepinex"}
    /\ icleanup
    /\ ifs0 = StaleGame
    /\ ifs = OutsideTemp(ifs0)

\* C25: during install the resource bundle is downloaded only if the user
\* answered yes to the resource bundle question, and that question is
\* answered before any artifact is downloaded.
C25_BundleOnlyOnExplicitYes ==
    /\ "resourceex" \in idone => iasked = "yes"
    /\ idone # {} => iasked # "none"

\* what BepInEx/plugins holds apart from the files matching MetaMystia-*.dll
OtherPlugins(fs) ==
    { q \in DOMAIN fs :
        /\ Len(q) > Len(PluginsDir) /\ StartsWith(q, PluginsDir)
        /\ ~(Len(q) = Len(PluginsDir) + 1 /\ GlobName(Last(q))) }

\* C32: during an install over an existing installation (cleanup followed
\* by deploy), no file under BepInEx/plugins other than MetaMystia-*.dll is
\* deleted, overwritten or created: what the directory holds besides them is
\* the same after install as before.
C32_OtherPluginsUntouched ==
    (icleanup /\ Exists(ifs0, PluginsDir) /\ ipc = "done") =>
        \A q \in OtherPlugins(ifs) \cup OtherPlugins(ifs0) :
            ContentAt(ifs, q) = ContentAt(ifs0, q)

(***************************************************************************)
(* Claims about the deletion engine                                        *)
(***************************************************************************)
\* the call for the path before the current one has just returned
JustPushed == epc \in {"pick", "done"} /\ Len(eresults) > 0

\* C11: delete_file and delete_directory return Skipped, never Failed, both
\* for a path that does not exist at call time and for a path that an
\* external process removes between the existence check and the delete call.
C11_MissingPathIsSkipped ==
    (JustPushed /\ (eobs.check = "gone" \/ eobs.remove = "gone")) =>
        eresults[Len(eresults)].status = "Skipped"

C11_Witness ==
    /\ JustPushed
    /\ eobs.check = "there" /\ eobs.remove = "gone"
    /\ eresults[Len(eresults)] = [path |-> "BepInEx", status |-> "Skipped"]

\* C12: execute_deletion returns exactly one DeletionResult per input path,
\* in input order (result i carries path i), whatever the outcome of each
\* path; a failure on one path never prevents the later paths from being
\* attempted.
C12_OneResultPerPathInOrder ==
    /\ Len(eresults) <= Len(efiles)
    /\ \A k \in 1..Len(eresults) : eresults[k].path = efiles[k]
    /\ epc \notin {"done", "idle"} => Len(eresults) = ei - 1
    /\ epc = "done" => Len(eresults) = Len(efiles)

C12_Witness ==
    /\ epc = "done"
    /\ Len(efiles) = MaxPaths
    /\ eresults[1].status \in FailedStatuses
    /\ eresults[Len(eresults)].status = "Success"

(***************************************************************************)
(* Claims about Uninstaller::uninstall                                     *)
(***************************************************************************)
Questions == {"uninstall_select_mode", "uninstall_confirm_deletion",
              "uninstall_ask_elevate_permission", "uninstall_ask_retry_failures"}

LogHas(ev) == \E i \in DOMAIN ulog : ulog[i].ev = ev

\* the status of a path in the last execute_deletion logged before position i
LatestStatus(p, i) ==
    LET hits == {j \in 1..(i - 1) : ulog[j].ev = "execute_deletion" /\ p \in Range(ulog[j].files)}
    IN  IF hits = {} THEN "none"
        ELSE LET last == CHOOSE j \in hits : \A k \in hits : k <= j
                 at == CHOOSE k \in DOMAIN ulog[last].res : ulog[last].res[k].path = p
             IN  ulog[last].res[at].status

PathsWith(statuses, i) ==
    {p \in Range(UninstallTargets) : LatestStatus(p, i) \in statuses}

\* C13: uninstall deletes nothing before the user has confirmed: every
\* execute_deletion comes after the scan and after a "yes" to the
\* confirmation; after a "no" uninstall returns UserCancelled and nothing was
\* deleted; after a scan that found nothing it returns Ok, asks nothing more
\* and deletes nothing.
C13_NothingDeletedBeforeConfirmation ==
    /\ \A i \in DOMAIN ulog : ulog[i].ev = "execute_deletion" =>
          \E s, c \in 1..(i - 1) :
              /\ s < c
              /\ ulog[s].ev = "scan_existing_files"
              /\ ulog[c] = Asked("uninstall_confirm_deletion", "yes")
    /\ (\E c \in DOMAIN ulog : ulog[c] = Asked("uninstall_confirm_deletion", "no")) =>
          /\ uresult = UninstallErr("UserCancelled")
          /\ ~LogHas("execute_deletion")
    /\ \A s \in DOMAIN ulog :
          ulog[s].ev = "scan_existing_files" /\ ulog[s].files = <<>> =>
              /\ uresult = UninstallOk
              /\ ~LogHas("execute_deletion")
              /\ \A j \in DOMAIN ulog : j > s => ulog[j].ev \notin Questions

C13_Witness ==
    /\ upc = "done"
    /\ LogHas("execute_deletion")
    /\ uresult = UninstallOk

\* the automatic retries logged since the last in-use warning, up to position i
RoundAt(i) ==
    LET warn == CHOOSE w \in 1..i :
                    /\ ulog[w].ev = "uninstall_files_in_use_warning"
                    /\ \A k \in (w + 1)..i : ulog[k].ev # "uninstall_files_in_use_warning"
    IN  Cardinality({k \in warn..i : ulog[k].ev = "uninstall_wait_before_retry"})

\* C14: in each pass the FileInUse items are retried with no question asked,
\* at most 3 times, after waits of 10, 20 and 40 seconds; each round retries
\* exactly the paths whose latest status is FileInUse, and there is no round
\* when no such path is left.
C14_InUseRetriedAutomatically ==
    /\ \A i \in DOMAIN ulog : ulog[i].ev = "uninstall_files_in_use_warning" =>
          /\ PathsWith({"FileInUse"}, i) # {}
          /\ i < Len(ulog) => ulog[i + 1].ev = "uninstall_wait_before_retry"
    /\ \A i \in DOMAIN ulog : ulog[i].ev = "uninstall_wait_before_retry" =>
          /\ i > 1 /\ i + 2 <= Len(ulog)
          /\ \/ ulog[i - 1].ev = "uninstall_files_in_use_warning"
             \/ /\ i > 3
                /\ ulog[i - 1].ev = "execute_deletion"
                /\ ulog[i - 3].ev = "uninstall_wait_before_retry"
          /\ RoundAt(i) <= 3
          /\ ulog[i].n = << <<10, 20, 40>>[RoundAt(i)], RoundAt(i), 3 >>
          /\ ulog[i + 1] = Ev("sleep", <<>>, <<>>, << <<10, 20, 40>>[RoundAt(i)] >>, "")
          /\ ulog[i + 2].ev = "execute_deletion"
          /\ Range(ulog[i + 2].files) = PathsWith({"FileInUse"}, i)
          /\ Len(ulog[i + 2].files) = Cardinality(PathsWith({"FileInUse"}, i))
          /\ PathsWith({"FileInUse"}, i) # {}

C14_Witness ==
    /\ upc = "in_use"
    /\ uattempt = 3
    /\ ustill # <<>>
    /\ Len(uexisting) = 2

\* C15: the elevation question is asked exactly when some path's status is
\* PermissionDenied and the process is not elevated, never in an elevated
\* process; after a "yes" the process deletes nothing more and shows no
\* summary: it has exited or returned the relaunch error.
C15_ElevationPrompt ==
    /\ \A i \in DOMAIN ulog : ulog[i].ev = "uninstall_ask_elevate_permission" =>
          /\ PathsWith({"PermissionDenied"}, i) # {}
          /\ ~uelevated
    /\ upc = "ask_retry" =>
          ((ulog[Len(ulog)] = Asked("uninstall_ask_elevate_permission", "no"))
              <=> (PathsWith({"PermissionDenied"}, Len(ulog) + 1) # {} /\ ~uelevated))
    /\ \A i \in DOMAIN ulog : ulog[i] = Asked("uninstall_ask_elevate_permission", "yes") =>
          /\ \A j \in DOMAIN ulog :
                j > i => ulog[j].ev \notin {"execute_deletion", "deletion_display_summary"}
          /\ upc = "done"
          /\ uresult \in {UninstallExited, UninstallErr("Relaunch")}

C15_Witness ==
    /\ uresult = UninstallExited
    /\ LogHas("uninstall_wait_before_retry")

\* C16: when the user answers "no" to the manual retry, failures remain, the
\* loop ends, uninstall returns Ok and the failed count of the summary is the
\* number of paths whose latest status is Failed.
C16_DeclinedRetryIsSummarised ==
    \A i \in DOMAIN ulog : ulog[i] = Asked("uninstall_ask_retry_failures", "no") =>
        /\ PathsWith(FailedStatuses, i) # {}
        /\ upc \in {"summary", "done"}
        /\ upc = "summary" => Len(ulog) = i
        /\ upc = "done" =>
              /\ uresult = UninstallOk
              /\ Len(ulog) = i + 1
              /\ ulog[i + 1].ev = "deletion_display_summary"
              /\ ulog[i + 1].n[2] = Cardinality(PathsWith(FailedStatuses, i))

C16_Witness ==
    /\ upc = "done"
    /\ LogHas("uninstall_retrying_failed_items")
    /\ ulog[Len(ulog) - 1] = Asked("uninstall_ask_retry_failures", "no")
    /\ ulog[Len(ulog)].n = <<0, 2, 0>>

(***************************************************************************)
(* Claims about Upgrader::upgrade                                          *)
(***************************************************************************)
Attempted(what) == \E i \in DOMAIN glog : glog[i] = what

C18_CallbacksAtMostOnce ==
    /\ \A c \in CallbackIds : hinvoked[c] <= 1
    /\ \A k \in 2..Len(horder) :
          /\ hpc[horder[k]] \in {"returned", "handled"}
          /\ htaken[horder[k]] = <<>>
          /\ \A c \in CallbackIds : hby[c] # horder[k]

C18_Witness ==
    /\ Len(horder) = 3
    /\ \A c \in CallbackIds : hinvoked[c] = 1

\* the run_shutdown call that won the swap has returned: its callbacks have
\* reported or its deadline has passed, and the telemetry flush is over
CleanupOver ==
    /\ horder # <<>>
    /\ hpc[Head(horder)] \in {"returned", "handled"}

\* C19: once an interrupt signal has arrived, the process does not end
\* before the cleanup started by run_shutdown is over (callbacks reported or
\* timed out, telemetry flushed), in every interleaving of the handler
\* threads with main's own run_shutdown call and return.
C19_NoExitBeforeCleanup ==
    (hsignal /\ hexited # "no") => CleanupOver

(***************************************************************************)
(* Claims about the rate limit of write_response_to_file                   *)
(***************************************************************************)
\* C20: during a rate-limited download, at every point of the copy loop the
\* bytes transferred so far exceed RATE_LIMIT x elapsed seconds by at most
\* one buffer of 8192 bytes.
C20_RateLimitRespected ==
    tlimit => tdownloaded * 1000 <= 131072 * tnow + 8192 * 1000

C20_Witness ==
    /\ tlimit
    /\ tpc = "limit"
    /\ treads >= 3
    /\ tdownloaded * 1000 > 131072 * tnow + 8000 * 1000

(***************************************************************************)
(* Claims about the rate limit after a stall                               *)
(***************************************************************************)
RECURSIVE BytesBetween(_, _)
\* the bytes of the reads logged at positions i..j
BytesBetween(i, j) == IF i > j THEN 0 ELSE blog[i].bytes + BytesBetween(i + 1, j)

\* C21: during a rate-limited download the bytes consumed in any window of
\* one second are at most RATE_LIMIT plus one chunk of 8192 bytes, also
\* right after a period in which the source delivered nothing: credit not
\* used during the stall is not spent later as a burst.
C21_WindowBounded ==
    \A i, j \in DOMAIN blog :
        (i <= j /\ blog[j].at - blog[i].at < 1000) =>
            BytesBetween(i, j) <= 131072 + 8192

(***************************************************************************)
(* Claims about the requests of one run                                    *)
(***************************************************************************)
\* C22: within one run, after the first successful version request no
\* further version request is sent, every get_version_info of the run
\* returns the same value, and an instance whose fetch failed has an empty
\* cache.
C22_OneVersionRequestPerRun ==
    /\ \A i, j \in DOMAIN sreq :
          (i < j /\ sreq[i].kind = "version" /\ sreq[i].ok) => sreq[j].kind # "version"
    /\ \A i, j \in DOMAIN sgot : sgot[i].val = sgot[j].val
    /\ \A d \in Instances :
          scache[d] # 0 => \E i \in DOMAIN sreq :
                              sreq[i] = Request("version", d, TRUE)

\* C23: on one Downloader instance no share code request is sent after a
\* share code request of that instance has succeeded.
C23_ShareCodeResolvedOnce ==
    \A i, j \in DOMAIN sreq :
        (i < j /\ sreq[i] = Request("share", sreq[j].by, TRUE)) => sreq[j].kind # "share"

(***************************************************************************)
(* Claims about backup_with_index                                          *)
(***************************************************************************)
\* path.<suffix> and path.<suffix>.<n>: the suffix put after the whole name
AppendedName(path, suffix, idx) ==
    Front(path) \o <<Last(path) \o BackupExt(suffix, idx)>>

\* the paths of the starting file system other than path are as they were
OthersKept == \A q \in DOMAIN kfs0 \ {kpath} : Exists(kfs, q) /\ kfs[q] = kfs0[q]

\* C24 (as stated): backup_with_index renames path to path.<suffix> when
\* that name is free, otherwise to path.<suffix>.<n> for the smallest n >= 1
\* whose name is free, returns that backup path and leaves no file under the
\* original name; when path does not exist it fails and changes nothing.
C24_BackupMovesToSmallestFreeName ==
    kpc = "done" =>
        IF Exists(kfs0, kpath)
        THEN /\ kres.res = "ok"
             /\ \E idx \in 0..(MaxOldBackups + 1) :
                   /\ kres.backup = AppendedName(kpath, ksuffix, idx)
                   /\ \A j \in 0..(idx - 1) : Exists(kfs0, AppendedName(kpath, ksuffix, j))
                   /\ ~Exists(kfs0, kres.backup)
             /\ Exists(kfs, kres.backup) /\ kfs[kres.backup] = kfs0[kpath]
             /\ ~Exists(kfs, kpath)
        ELSE kres.res = "err" /\ kfs = kfs0

\* C24 (amended): when path exists and the call returns Ok, the returned
\* backup is path with its extension replaced by <suffix>, or by
\* <suffix>.<n> for the smallest n >= 1 whose name is free, that name was
\* free, it now holds the content of path, and the original name is either
\* gone or still holds that content; when the call returns Err the file is
\* still under its original name; every other file is as it was; when path
\* does not exist the call fails and changes nothing.
C24_BackupTakesSmallestFreeName ==
    kpc = "done" =>
        IF Exists(kfs0, kpath)
        THEN /\ OthersKept
             /\ Exists(kfs, kpath) => kfs[kpath] = kfs0[kpath]
             /\ kres.res = "err" => Exists(kfs, kpath)
             /\ kres.res = "ok" =>
                   /\ \E idx \in 0..(MaxOldBackups + 1) :
                         /\ kres.backup = BackupName(kpath, ksuffix, idx)
                         /\ \A j \in 0..(idx - 1) : Exists(kfs0, BackupName(kpath, ksuffix, j))
                   /\ ~Exists(kfs0, kres.backup)
                   /\ Exists(kfs, kres.backup) /\ kfs[kres.backup] = kfs0[kpath]
        ELSE kres.res = "err" /\ kfs = kfs0

C24_Witness ==
    /\ kpc = "done"
    /\ kres.res = "ok"
    /\ kres.backup = BackupName(kpath, ksuffix, 2)
    /\ Exists(kfs, kpath)

(***************************************************************************)
(* Claims about scan_existing_files                                        *)
(***************************************************************************)
ScanDone == zfs # EmptyFs /\ \A m \in Modes : zi[m] > Len(get_targets(m))

NoDuplicates(s) == \A i, j \in DOMAIN s : s[i] = s[j] => i = j

\* the existing files that match the plugin pattern or the bundle pattern
MatchingFiles ==
    { p \in DOMAIN zfs :
        /\ zfs[p] # Dir
        /\ \/ Len(p) = 3 /\ Front(p) = PluginsPath /\ GlobName(Last(p))
           \/ Len(p) = 2 /\ Front(p) = ResourceExPath /\ GlobZipName(Last(p)) }

\* the existing framework files and directories
FrameworkPaths ==
    { t.path : t \in { FULL_TARGETS[k] : k \in DOMAIN FULL_TARGETS } }
FrameworkFound ==
    { p \in FrameworkPaths \cap DOMAIN zfs :
        (zfs[p] = Dir) = (p \in {<<<<"BepInEx">>>>, <<<<"ResourceEx">>>>}) }

LightExact ==
    /\ Range(zfound["Light"]) = MatchingFiles
    /\ NoDuplicates(zfound["Light"])

\* C26 (as stated): light mode returns exactly the existing files matching
\* the plugin and bundle patterns; full mode returns every path light mode
\* returns and in addition the existing framework files and directories.
C26_FullReturnsLightAndFramework ==
    ScanDone =>
        /\ LightExact
        /\ Range(zfound["Full"]) = MatchingFiles \cup FrameworkFound

\* C26 (amended): light mode returns exactly the existing files matching
\* the plugin and bundle patterns; full mode returns exactly the existing
\* framework files and directories, and every path light mode returns lies
\* under a directory full mode returns.
C26_FullCoversLight ==
    ScanDone =>
        /\ LightExact
        /\ Range(zfound["Full"]) = FrameworkFound
        /\ NoDuplicates(zfound["Full"])
        /\ \A p \in Range(zfound["Light"]) :
              \E q \in Range(zfound["Full"]) : StartsWith(p, q) /\ zfs[q] = Dir

\* the tree of the example: only BepInEx/plugins/MetaMystia-v1.0.0.dll
C26_Witness ==
    /\ ScanDone
    /\ DOMAIN zfs = { <<<<"Game", "exe">>>>, <<<<"BepInEx">>>>, PluginsPath,
                      PluginsPath \o <<OldDllName>> }
    /\ zfound["Light"] = << PluginsPath \o <<OldDllName>> >>
    /\ zfound["Full"] = << <<<<"BepInEx">>>> >>

(***************************************************************************)
(* Claims about the batch operations                                       *)
(***************************************************************************)
\* the paths consolidate hands to backup_paths_with_index
ToBackup ==
    (IF Parsed(cfs0) # {} THEN Parsed(cfs0) ELSE Unparsed(cfs0)) \ {cresult.path}

BackedUp(q) == \E b \in cbackups : b[1] = q /\ Exists(cfs, b[2])

ReportedAs(what, p) == \E k \in DOMAIN lreported : lreported[k] = [what |-> what, path |-> p]

\* C27: batch operations never abort on one item's failure: the backup of
\* every path handed to backup_paths_with_index is attempted and so is the
\* removal of every path remove_glob_files matched; each failure is
\* reported, consolidation still returns the latest version, and the final
\* cleanup pass completes without an error.
C27_BatchesNeverAbort ==
    /\ (ConsolidateDone /\ Candidates(cfs0) # {}) =>
          /\ cresult.tag = "some"
          /\ Parsed(cfs0) # {} => cresult.path = MaxParsed(cfs0)
          /\ \A q \in ToBackup : (BackedUp(q) /\ q \notin cfailed) \/ (q \in cfailed /\ InPlace(q))
    /\ lpc = "done" =>
          /\ lresult = "Ok"
          /\ \A p \in lmatched : \E k \in DOMAIN lattempts : lattempts[k].path = p
          /\ \A k \in DOMAIN lattempts :
                IF lattempts[k].ok
                THEN ReportedAs("deleted", lattempts[k].path) /\ ~Exists(lfs, lattempts[k].path)
                ELSE ReportedAs("failed", lattempts[k].path) /\ Exists(lfs, lattempts[k].path)

\* a backup failed and a later one was made; a removal failed and a later
\* one was made
C27_Witness ==
    /\ lpc = "done"
    /\ cfailed # {} /\ cbackups # {}
    /\ \E i, j \in DOMAIN lattempts : i < j /\ ~lattempts[i].ok /\ lattempts[j].ok

(***************************************************************************)
(* Claims about the result list of uninstall                               *)
(***************************************************************************)
DeletionRuns == { k \in DOMAIN ulog : ulog[k].ev = "execute_deletion" }

\* C29: from the first execute_deletion on, and so at every iteration of
\* the failure-resolution loop, all_results holds exactly one result for
\* each scanned path, and the three counts of the summary add up to the
\* number of scanned paths.
C29_OneResultPerScannedPath ==
    /\ DeletionRuns # {} =>
          /\ Len(uall) = Len(uexisting)
          /\ Range(Paths(uall)) = Range(uexisting)
          /\ NoDuplicates(Paths(uall))
    /\ \A k \in DOMAIN ulog :
          ulog[k].ev = "deletion_display_summary" =>
              ulog[k].n[1] + ulog[k].n[2] + ulog[k].n[3] = Len(uexisting)

\* the summary after two rounds of retries over two scanned paths
C29_Witness ==
    /\ Len(uexisting) = 2
    /\ Cardinality(DeletionRuns) >= 3
    /\ \E k \in DOMAIN ulog : ulog[k].ev = "deletion_display_summary"

(***************************************************************************)
(* Claims about uninstall under the CLI Ui                                 *)
(***************************************************************************)
\* C28: under a Ui that accepts every manual-retry prompt, uninstall
\* eventually terminates: it reaches the summary or exits for elevation,
\* whatever the file system does.
C28_UninstallTerminates == <>(ypc = "done")

(***************************************************************************)
(* Claims about a failed upgrade                                           *)
(***************************************************************************)
\* C30: if upgrade fails after it found an installed plugin DLL, the
\* plugins directory still holds a file matching MetaMystia-*.dll, the old
\* or the new version.
C30_FailedUpgradeKeepsActiveDll ==
    (npc = "done" /\ nresult = "Err") =>
        \E p \in GlobMatches(nfs, PluginsPath) : nfs[p] # Dir /\ nfs[p].len = FileChunks

\* the temp files of a call of extract: files with a tmp / tmpN extension
\* that were not in the destination tree before the call
ExtractTempFiles ==
    { q \in DOMAIN xfs \ DOMAIN xfs0 :
        /\ xfs[q] # Dir
        /\ \E k \in 0..Len(TmpSuffix) : <<Last(Last(q))>> = TmpExt(k) }

\* C33: whenever extract returns, with success or with any error (temp-file
\* creation failure, failure while writing the entry, placement failure),
\* no temp file created by that call remains in the destination tree.
C33_NoTempFileLeftByExtract ==
    xpc \in {"ok", "err"} => ExtractTempFiles = {}

\* C34: delete_file and delete_directory return Success only after
\* observing that the path no longer exists following a successful delete
\* call; when a delete call, the retry made after clearing the read-only
\* attribute included, succeeds but the path exists afterwards, the result
\* is Failed(Other).
C34_SuccessOnlyAfterObservedGone ==
    JustPushed =>
        LET r == eresults[Len(eresults)]
        IN /\ r.status = "Success" => (eobs.deleted # "none" /\ eobs.after = "gone")
           /\ (eobs.deleted # "none" /\ eworld[r.path]) => r.status = "Other"

(***************************************************************************)
(* Claims about the backup names of a consolidation                        *)
(***************************************************************************)
DllV100 == PluginsPath \o <<NameOrder[2]>>
DllV150 == PluginsPath \o <<NameOrder[4]>>
DllV200 == PluginsPath \o <<NameOrder[6]>>

\* consolidate has returned for the three candidates v1.0.0, v2.0.0 and
\* v1.5.0, with no earlier backups present
ThreeCandidatesDone ==
    /\ ConsolidateDone
    /\ DOMAIN cfs0 = DOMAIN MkdirAll(EmptyFs, PluginsPath) \cup {DllV100, DllV150, DllV200}

HoldsAt(q, idx) == ContentAt(cfs, BackupName(q, DllBackupSuffix, idx)) = cfs0[q]

\* C38 (as stated): for the three candidates with no earlier backups, the
\* two superseded files are renamed to backups whose names end in .old and
\* .old.1 respectively (v1.5.0 is demoted first, then v1.0.0).
C38_BackupsEndInOldAndOld1 ==
    (ThreeCandidatesDone /\ cfailed = {}) =>
        /\ HoldsAt(DllV150, 0)
        /\ HoldsAt(DllV100, 1)

\* C38 (amended): for the three candidates with no earlier backups, v2.0.0
\* stays in place and each of the two superseded files whose backup did
\* not fail is held by <its own name>.old; no backup name ends in .old.1.
C38_BackupsBothEndInOld ==
    ThreeCandidatesDone =>
        /\ InPlace(DllV200)
        /\ \A q \in {DllV100, DllV150} :
              /\ q \notin cfailed => HoldsAt(q, 0)
              /\ q \in cfailed => InPlace(q)
              /\ ~Exists(cfs, BackupName(q, DllBackupSuffix, 1))

C38_Witness ==
    /\ ThreeCandidatesDone
    /\ cfailed = {}
    /\ HoldsAt(DllV100, 0) /\ HoldsAt(DllV150, 0)
    /\ ~Exists(cfs, DllV100) /\ ~Exists(cfs, DllV150)

(***************************************************************************)
(* Claims about the VersionInfo accessors                                  *)
(***************************************************************************)
NoSeparator == \A k \in 1..Len(bep_in_ex) : bep_in_ex[k] # "#"

\* C37: when the encoded bepInEx field contains no '#', bepinex_filename
\* and bepinex_version both fail with InvalidVersionInfo.
C37_NoSeparatorFailsBoth ==
    (mcall \in {"bepinex_filename", "bepinex_version"} /\ NoSeparator) =>
        mresult.res = "InvalidVersionInfo"

(***************************************************************************)
(* Claims about the time slept under the retry policy                      *)
(***************************************************************************)
RECURSIVE TotalSecs(_)
TotalSecs(sleeps) ==
    IF sleeps = <<>> THEN 0 ELSE Head(sleeps).secs + TotalSecs(Tail(sleeps))

IsBackoff(sl) == sl.by = "backoff"
BackoffSecs == [k \in 1..Len(SelectSeq(wsleeps, IsBackoff)) |->
                    SelectSeq(wsleeps, IsBackoff)[k].secs]

IsPrefixOf(s, t) == Len(s) <= Len(t) /\ s = SubSeq(t, 1, Len(s))

\* C35: in every run of a network operation under the retry policy, 429
\* answers with Retry-After included, the total time slept is at most
\* min(5, 15) + min(10, 15) + min(20, 15) = 30 seconds.
C35_TotalSleepWithinBackoffSum ==
    wkind = "network" => TotalSecs(wsleeps) <= 5 + 10 + 15

C31_ExistingBackupNeverOverwritten ==
    /\ \A q \in DOMAIN jkept : ContentAt(jfs, q) = jkept[q]
    /\ jres.res = "ok" => jres.backup \notin DOMAIN jkept

RetryIdle ==
    /\ plan = [n \in 1..Attempts |-> "ok"]
    /\ rpc = [i \in Runs |-> "idle"]
    /\ attempt = [i \in Runs |-> 0]
    /\ hist = [i \in Runs |-> <<>>]
    /\ notes = [i \in Runs |-> <<>>]
    /\ slept = [i \in Runs |-> <<>>]
    /\ rresult = [i \in Runs |-> NoResult]

AtomicIdle ==
    /\ fs0 = EmptyFs
    /\ ac = [AtomicStart(EmptyFs, <<>>, <<>>) EXCEPT !.pc = "idle"]

ExtractIdle ==
    /\ archive = <<>>
    /\ excl = <<>>
    /\ xi = 1
    /\ xpc = "idle"
    /\ xfs = EmptyFs
    /\ xfs0 = EmptyFs
    /\ extracted = <<>>

ConsolidateIdle ==
    /\ cfs = EmptyFs
    /\ cfs0 = EmptyFs
    /\ cpc = "idle"
    /\ cqueue = <<>>
    /\ clatest = NoLatest
    /\ cresult = NoLatest
    /\ cwarned = {}
    /\ cfailed = {}
    /\ cbackups = {}

DownloadIdle ==
    /\ dworld = [s \in Sources |-> [n \in 1..Attempts |-> "ok"]]
    /\ dasset = TRUE
    /\ dsrc = "lookup"
    /\ dpc = "idle"
    /\ dattempt = 0
    /\ dlog = <<>>
    /\ dnotes = [s \in Sources |-> <<>>]
    /\ dret = [s \in Sources |-> NoResult]
    /\ dresult = NoResult

InstallIdle ==
    /\ ifs0 = EmptyFs
    /\ icleanup = FALSE
    /\ ifs = EmptyFs
    /\ ipc = "idle"
    /\ ipos = 1
    /\ iwant = FALSE
    /\ iasked = "none"
    /\ ishow = FALSE
    /\ iprimary = FALSE
    /\ iguard = FALSE
    /\ isrc = 1
    /\ itry = 0
    /\ ifaults = 0
    /\ idone = {}
    /\ iresult = InstallNoResult

DeletionIdle ==
    /\ efiles = <<>>
    /\ eworld = [p \in DeletionPaths |-> FALSE]
    /\ ei = 1
    /\ epc = "idle"
    /\ eobs = NoObs
    /\ eresults = <<>>

UninstallIdle ==
    /\ uexisting = <<>>
    /\ uelevated = FALSE
    /\ uall = <<>>
    /\ uinuse = <<>>
    /\ uperm = <<>>
    /\ uother = <<>>
    /\ ustill = <<>>
    /\ uattempt = 0
    /\ ufailures = 0
    /\ upc = "idle"
    /\ ulog = <<>>
    /\ uresult = UninstallNoResult

UpgradeIdle ==
    /\ ginstalled = [dll |-> NotInstalled, resourceex |-> NotInstalled]
    /\ gremote = [dll |-> <<"1", "0", "0">>, zip |-> <<"1", "0", "0">>]
    /\ gpc = "idle"
    /\ glog = <<>>
    /\ gresult = UpgradeNoResult

ShutdownIdle ==
    /\ hstarted = FALSE
    /\ hcallbacks = <<>>
    /\ hpc = [t \in Threads |-> "off"]
    /\ htaken = [t \in Threads |-> <<>>]
    /\ hcb = [c \in CallbackIds |-> "unregistered"]
    /\ hinvoked = [c \in CallbackIds |-> 0]
    /\ hby = [c \in CallbackIds |-> "none"]
    /\ horder = <<>>
    /\ htimedout = FALSE
    /\ hsignal = FALSE
    /\ hexited = "idle"

RateLimitIdle ==
    /\ tlimit = FALSE
    /\ tdownloaded = 0
    /\ tnow = 0
    /\ treads = 0
    /\ tpc = "idle"

BurstIdle ==
    /\ bdownloaded = 0
    /\ bnow = 0
    /\ breads = 0
    /\ bstalls = 0
    /\ bpc = "idle"
    /\ blog = <<>>

SessionIdle ==
    /\ scache = [d \in Instances |-> 0]
    /\ sremote = 1
    /\ spc = "idle"
    /\ sinst = "run"
    /\ spurpose = "step"
    /\ stry = 0
    /\ sreq = <<>>
    /\ sgot = <<>>
    /\ sresult = SessionNoResult

BackupIdle ==
    /\ kfs0 = EmptyFs
    /\ kfs = EmptyFs
    /\ kpath = NoPath
    /\ ksuffix = <<>>
    /\ kpc = "idle"
    /\ kres = BackupNoResult

ScanIdle ==
    /\ zfs = EmptyFs
    /\ zi = [m \in Modes |-> 1]
    /\ zfound = [m \in Modes |-> <<>>]

CleanupIdle ==
    /\ lfs = EmptyFs
    /\ lpc = "idle"
    /\ lpass = "dll"
    /\ lqueue = <<>>
    /\ lmatched = {}
    /\ lremoved = <<>>
    /\ lfailed = <<>>
    /\ lattempts = <<>>
    /\ lreported = <<>>
    /\ lresult = "none"

CliIdle ==
    /\ yexisting = <<>>
    /\ yelevated = FALSE
    /\ yall = <<>>
    /\ yperm = <<>>
    /\ yother = <<>>
    /\ ystill = <<>>
    /\ yattempt = 0
    /\ ypc = "idle"
    /\ yresult = UninstallNoResult

DllUpgradeIdle ==
    /\ nfs0 = EmptyFs
    /\ nfs = EmptyFs
    /\ npc = "idle"
    /\ nqueue = <<>>
    /\ nbackups = {}
    /\ nreported = {}
    /\ nresult = "none"

VersionInfoIdle ==
    /\ bep_in_ex = <<>>
    /\ mcall = "idle"
    /\ mresult = FieldNoResult

BackoffIdle ==
    /\ wkind = "idle"
    /\ wpc = "idle"
    /\ wattempt = 0
    /\ wstill = 0
    /\ wsleeps = <<>>
    /\ wresult = "none"

RaceIdle ==
    /\ jfs = EmptyFs
    /\ jkept = EmptyFs
    /\ jidx = 0
    /\ jpc = "idle"
    /\ jfailed = 0
    /\ jmade = 0
    /\ jres = BackupNoResult

InitRetry ==
    RetryInit /\ AtomicIdle /\ ExtractIdle /\ ConsolidateIdle /\ DownloadIdle /\ InstallIdle
    /\ DeletionIdle
    /\ UninstallIdle
    /\ UpgradeIdle
    /\ ShutdownIdle
    /\ RateLimitIdle
    /\ BurstIdle
    /\ SessionIdle
    /\ BackupIdle
    /\ ScanIdle
    /\ CleanupIdle
    /\ CliIdle
    /\ DllUpgradeIdle
    /\ VersionInfoIdle
    /\ BackoffIdle
    /\ RaceIdle
NextRetry == \E i \in Runs : RetryCall(i) \/ RetryNotify(i) \/ RetrySleep(i)
SpecRetry == InitRetry /\ [][NextRetry]_vars

InitAtomic ==
    AtomicInit /\ RetryIdle /\ ExtractIdle /\ ConsolidateIdle /\ DownloadIdle /\ InstallIdle
    /\ DeletionIdle
    /\ UninstallIdle
    /\ UpgradeIdle
    /\ ShutdownIdle
    /\ RateLimitIdle
    /\ BurstIdle
    /\ SessionIdle
    /\ BackupIdle
    /\ ScanIdle
    /\ CleanupIdle
    /\ CliIdle
    /\ DllUpgradeIdle
    /\ VersionInfoIdle
    /\ BackoffIdle
    /\ RaceIdle
NextAtomic == AtomicRenameOrCopy
SpecAtomic == InitAtomic /\ [][NextAtomic]_vars

InitExtract ==
    ExtractInit /\ RetryIdle /\ AtomicIdle /\ ConsolidateIdle /\ DownloadIdle /\ InstallIdle
    /\ DeletionIdle
    /\ UninstallIdle
    /\ UpgradeIdle
    /\ ShutdownIdle
    /\ RateLimitIdle
    /\ BurstIdle
    /\ SessionIdle
    /\ BackupIdle
    /\ ScanIdle
    /\ CleanupIdle
    /\ CliIdle
    /\ DllUpgradeIdle
    /\ VersionInfoIdle
    /\ BackoffIdle
    /\ RaceIdle
NextExtract ==
    \/ ExtractReject
    \/ ExtractRejectLink
    \/ ExtractSkip
    \/ ExtractWrite
    \/ ExtractReturn
SpecExtract == InitExtract /\ [][NextExtract]_vars

InitConsolidate ==
    ConsolidateInit /\ RetryIdle /\ AtomicIdle /\ ExtractIdle /\ DownloadIdle /\ InstallIdle
    /\ DeletionIdle
    /\ UninstallIdle
    /\ UpgradeIdle
    /\ ShutdownIdle
    /\ RateLimitIdle
    /\ BurstIdle
    /\ SessionIdle
    /\ BackupIdle
    /\ ScanIdle
    /\ CleanupIdle
    /\ CliIdle
    /\ DllUpgradeIdle
    /\ VersionInfoIdle
    /\ BackoffIdle
    /\ RaceIdle
NextConsolidate ==
    \/ ConsolidateNone
    \/ ConsolidateParsed
    \/ ConsolidateUnparsed
    \/ ConsolidateBackup
    \/ ConsolidateReturn
SpecConsolidate == InitConsolidate /\ [][NextConsolidate]_vars

InitDownload ==
    DownloadInit /\ RetryIdle /\ AtomicIdle /\ ExtractIdle /\ ConsolidateIdle /\ InstallIdle
    /\ DeletionIdle
    /\ UninstallIdle
    /\ UpgradeIdle
    /\ ShutdownIdle
    /\ RateLimitIdle
    /\ BurstIdle
    /\ SessionIdle
    /\ BackupIdle
    /\ ScanIdle
    /\ CleanupIdle
    /\ CliIdle
    /\ DllUpgradeIdle
    /\ VersionInfoIdle
    /\ BackoffIdle
    /\ RaceIdle
NextDownload ==
    \/ DownloadCall
    \/ DownloadRetry
    \/ DownloadFound
    \/ DownloadNoUrl
    \/ DownloadGithubReturned
    \/ DownloadMirrorReturned
SpecDownload == InitDownload /\ [][NextDownload]_vars

InitInstall ==
    InstallInit /\ RetryIdle /\ AtomicIdle /\ ExtractIdle /\ ConsolidateIdle /\ DownloadIdle
    /\ DeletionIdle
    /\ UninstallIdle
    /\ UpgradeIdle
    /\ ShutdownIdle
    /\ RateLimitIdle
    /\ BurstIdle
    /\ SessionIdle
    /\ BackupIdle
    /\ ScanIdle
    /\ CleanupIdle
    /\ CliIdle
    /\ DllUpgradeIdle
    /\ VersionInfoIdle
    /\ BackoffIdle
    /\ RaceIdle
NextInstall ==
    \/ InstallVersionInfo
    \/ InstallReleaseNotes
    \/ InstallShareCode
    \/ InstallAsk
    \/ InstallCreateTempDir
    \/ InstallDownload
    \/ InstallSkipResourceEx
    \/ InstallDownloadsCompleted
    \/ InstallCleanup
    \/ InstallSkipCleanup
    \/ InstallDeployBepInEx
    \/ InstallWriteConfig
    \/ InstallDeployDll
    \/ InstallDeployResourceEx
    \/ InstallFinished
    \/ InstallDropGuard
SpecInstall == InitInstall /\ [][NextInstall]_vars

InitDeletion ==
    DeletionInit /\ RetryIdle /\ AtomicIdle /\ ExtractIdle /\ ConsolidateIdle /\ DownloadIdle /\ InstallIdle
    /\ UninstallIdle
    /\ UpgradeIdle
    /\ ShutdownIdle
    /\ RateLimitIdle
    /\ BurstIdle
    /\ SessionIdle
    /\ BackupIdle
    /\ ScanIdle
    /\ CleanupIdle
    /\ CliIdle
    /\ DllUpgradeIdle
    /\ VersionInfoIdle
    /\ BackoffIdle
    /\ RaceIdle
NextDeletion ==
    \/ DeletionPick
    \/ DeletionExists
    \/ DeletionRemove
    \/ DeletionVerify
    \/ DeletionPermRetry
    \/ DeletionReturn
    \/ ExternalRemove
SpecDeletion == InitDeletion /\ [][NextDeletion]_vars

InitUninstall ==
    UninstallInit /\ RetryIdle /\ AtomicIdle /\ ExtractIdle /\ ConsolidateIdle /\ DownloadIdle /\ InstallIdle /\ DeletionIdle
    /\ UpgradeIdle
    /\ ShutdownIdle
    /\ RateLimitIdle
    /\ BurstIdle
    /\ SessionIdle
    /\ BackupIdle
    /\ ScanIdle
    /\ CleanupIdle
    /\ CliIdle
    /\ DllUpgradeIdle
    /\ VersionInfoIdle
    /\ BackoffIdle
    /\ RaceIdle
NextUninstall ==
    \/ UninstallScan
    \/ UninstallConfirm
    \/ UninstallDelete
    \/ UninstallClassify
    \/ UninstallInUseRetry
    \/ UninstallInUseDone
    \/ UninstallAskElevate
    \/ UninstallNoElevate
    \/ UninstallAskRetry
    \/ UninstallSummary
SpecUninstall == InitUninstall /\ [][NextUninstall]_vars

InitUpgrade ==
    UpgradeInit /\ RetryIdle /\ AtomicIdle /\ ExtractIdle /\ ConsolidateIdle /\ DownloadIdle /\ InstallIdle /\ DeletionIdle /\ UninstallIdle
    /\ ShutdownIdle
    /\ RateLimitIdle
    /\ BurstIdle
    /\ SessionIdle
    /\ BackupIdle
    /\ ScanIdle
    /\ CleanupIdle
    /\ CliIdle
    /\ DllUpgradeIdle
    /\ VersionInfoIdle
    /\ BackoffIdle
    /\ RaceIdle
NextUpgrade ==
    \/ UpgradeCheckInstalled
    \/ UpgradeCompare
    \/ UpgradeAnnounce
    \/ UpgradePrepare
    \/ UpgradeDownloadDll
    \/ UpgradeDownloadResourceex
    \/ UpgradeInstallDll
    \/ UpgradeInstallResourceex
    \/ UpgradeCleanup
SpecUpgrade == InitUpgrade /\ [][NextUpgrade]_vars

InitShutdown ==
    ShutdownInit /\ RetryIdle /\ AtomicIdle /\ ExtractIdle /\ ConsolidateIdle /\ DownloadIdle /\ InstallIdle /\ DeletionIdle /\ UninstallIdle /\ UpgradeIdle
    /\ RateLimitIdle
    /\ BurstIdle
    /\ SessionIdle
    /\ BackupIdle
    /\ ScanIdle
    /\ CleanupIdle
    /\ CliIdle
    /\ DllUpgradeIdle
    /\ VersionInfoIdle
    /\ BackoffIdle
    /\ RaceIdle
NextShutdown ==
    \/ RegisterCleanup
    \/ MainCallsShutdown
    \/ \E t \in Handlers : SignalArrives(t)
    \/ \E t \in Threads : ShutdownSwap(t)
    \/ \E t \in Threads : ShutdownTake(t)
    \/ \E t \in Threads : ShutdownSpawn(t)
    \/ \E c \in CallbackIds : CallbackRuns(c)
    \/ \E t \in Threads : ShutdownWaitDone(t)
    \/ \E t \in Threads : ShutdownWaitTimeout(t)
    \/ \E t \in Threads : ShutdownFlush(t)
    \/ MainReturns
    \/ CtrlcExits
    \/ ConsoleReturns
SpecShutdown == InitShutdown /\ [][NextShutdown]_vars

InitRateLimit ==
    RateLimitInit /\ RetryIdle /\ AtomicIdle /\ ExtractIdle /\ ConsolidateIdle /\ DownloadIdle /\ InstallIdle /\ DeletionIdle /\ UninstallIdle /\ UpgradeIdle /\ ShutdownIdle
    /\ BurstIdle
    /\ SessionIdle
    /\ BackupIdle
    /\ ScanIdle
    /\ CleanupIdle
    /\ CliIdle
    /\ DllUpgradeIdle
    /\ VersionInfoIdle
    /\ BackoffIdle
    /\ RaceIdle
NextRateLimit ==
    \/ CopyRead
    \/ CopyEnd
    \/ CopyFails
    \/ CopySleep
    \/ CopyNoSleep
SpecRateLimit == InitRateLimit /\ [][NextRateLimit]_vars

InitBurst ==
    BurstInit /\ RetryIdle /\ AtomicIdle /\ ExtractIdle /\ ConsolidateIdle /\ DownloadIdle /\ InstallIdle /\ DeletionIdle /\ UninstallIdle /\ UpgradeIdle /\ ShutdownIdle /\ RateLimitIdle
    /\ SessionIdle
    /\ BackupIdle
    /\ ScanIdle
    /\ CleanupIdle
    /\ CliIdle
    /\ DllUpgradeIdle
    /\ VersionInfoIdle
    /\ BackoffIdle
    /\ RaceIdle
NextBurst ==
    \/ BurstRead
    \/ BurstEnd
    \/ BurstSleep
    \/ BurstNoSleep
SpecBurst == InitBurst /\ [][NextBurst]_vars

InitSession ==
    SessionInit /\ RetryIdle /\ AtomicIdle /\ ExtractIdle /\ ConsolidateIdle /\ DownloadIdle /\ InstallIdle /\ DeletionIdle /\ UninstallIdle /\ UpgradeIdle /\ ShutdownIdle /\ RateLimitIdle /\ BurstIdle
    /\ BackupIdle
    /\ ScanIdle
    /\ CleanupIdle
    /\ CliIdle
    /\ DllUpgradeIdle
    /\ VersionInfoIdle
    /\ BackoffIdle
    /\ RaceIdle
NextSession ==
    \/ RemotePublishes
    \/ GetVersionInfo
    \/ VersionRequest
    \/ AskSelfUpdate
    \/ GetShareCode
    \/ ShareRequest
    \/ CheckGame
    \/ DisplayUpdates
    \/ SelectOperation
    \/ DownloadBepinex
SpecSession == InitSession /\ [][NextSession]_vars

InitBackup ==
    BackupInit /\ RetryIdle /\ AtomicIdle /\ ExtractIdle /\ ConsolidateIdle /\ DownloadIdle /\ InstallIdle /\ DeletionIdle /\ UninstallIdle /\ UpgradeIdle /\ ShutdownIdle /\ RateLimitIdle /\ BurstIdle /\ SessionIdle
    /\ ScanIdle
    /\ CleanupIdle
    /\ CliIdle
    /\ DllUpgradeIdle
    /\ VersionInfoIdle
    /\ BackoffIdle
    /\ RaceIdle
NextBackup ==
    \/ BackupCall
SpecBackup == InitBackup /\ [][NextBackup]_vars

InitScan ==
    ScanInit /\ RetryIdle /\ AtomicIdle /\ ExtractIdle /\ ConsolidateIdle /\ DownloadIdle /\ InstallIdle /\ DeletionIdle /\ UninstallIdle /\ UpgradeIdle /\ ShutdownIdle /\ RateLimitIdle /\ BurstIdle /\ SessionIdle /\ BackupIdle
    /\ CleanupIdle
    /\ CliIdle
    /\ DllUpgradeIdle
    /\ VersionInfoIdle
    /\ BackoffIdle
    /\ RaceIdle
NextScan ==
    \E m \in Modes : ScanTarget(m)
SpecScan == InitScan /\ [][NextScan]_vars

InitBatch ==
    ConsolidateInit /\ CleanupInit /\ RetryIdle /\ AtomicIdle /\ ExtractIdle /\ DownloadIdle /\ InstallIdle /\ DeletionIdle /\ UninstallIdle /\ UpgradeIdle /\ ShutdownIdle /\ RateLimitIdle /\ BurstIdle /\ SessionIdle /\ BackupIdle /\ ScanIdle
    /\ CliIdle
    /\ DllUpgradeIdle
    /\ VersionInfoIdle
    /\ BackoffIdle
    /\ RaceIdle
NextBatch ==
    \/ ConsolidateNone
    \/ ConsolidateParsed
    \/ ConsolidateUnparsed
    \/ ConsolidateBackup
    \/ ConsolidateReturn
    \/ CleanupStart
    \/ CleanupGlob
    \/ CleanupRemove
    \/ CleanupReport
SpecBatch == InitBatch /\ [][NextBatch]_vars

InitCli ==
    CliInit /\ RetryIdle /\ AtomicIdle /\ ExtractIdle /\ ConsolidateIdle /\ DownloadIdle /\ InstallIdle /\ DeletionIdle /\ UninstallIdle /\ UpgradeIdle /\ ShutdownIdle /\ RateLimitIdle /\ BurstIdle /\ SessionIdle /\ BackupIdle /\ ScanIdle /\ CleanupIdle
    /\ DllUpgradeIdle
    /\ VersionInfoIdle
    /\ BackoffIdle
    /\ RaceIdle
NextCli ==
    \/ CliScan
    \/ CliDelete
    \/ CliClassify
    \/ CliInUseRetry
    \/ CliInUseDone
    \/ CliElevate
    \/ CliRetry
    \/ CliSummary
\* the process keeps running: a step that can be taken is taken
SpecCli == InitCli /\ [][NextCli]_vars /\ WF_vars(NextCli)

InitDllUpgrade ==
    DllUpgradeInit /\ RetryIdle /\ AtomicIdle /\ ExtractIdle /\ ConsolidateIdle /\ DownloadIdle /\ InstallIdle /\ DeletionIdle /\ UninstallIdle /\ UpgradeIdle /\ ShutdownIdle /\ RateLimitIdle /\ BurstIdle /\ SessionIdle /\ BackupIdle /\ ScanIdle /\ CleanupIdle /\ CliIdle
    /\ VersionInfoIdle
    /\ BackoffIdle
    /\ RaceIdle
NextDllUpgrade ==
    \/ DllUpgradeDownload
    \/ DllUpgradeGlob
    \/ DllUpgradeBackup
    \/ DllUpgradeCopy
    \/ DllUpgradePlace
    \/ DllUpgradeFinish
SpecDllUpgrade == InitDllUpgrade /\ [][NextDllUpgrade]_vars

InitVersionInfo ==
    VersionInfoInit /\ RetryIdle /\ AtomicIdle /\ ExtractIdle /\ ConsolidateIdle /\ DownloadIdle /\ InstallIdle /\ DeletionIdle /\ UninstallIdle /\ UpgradeIdle /\ ShutdownIdle /\ RateLimitIdle /\ BurstIdle /\ SessionIdle /\ BackupIdle /\ ScanIdle /\ CleanupIdle /\ CliIdle /\ DllUpgradeIdle
    /\ BackoffIdle
    /\ RaceIdle
NextVersionInfo ==
    \/ bepinex_filename
    \/ bepinex_version
SpecVersionInfo == InitVersionInfo /\ [][NextVersionInfo]_vars

InitBackoff ==
    BackoffInit /\ RetryIdle /\ AtomicIdle /\ ExtractIdle /\ ConsolidateIdle /\ DownloadIdle /\ InstallIdle /\ DeletionIdle /\ UninstallIdle /\ UpgradeIdle /\ ShutdownIdle /\ RateLimitIdle /\ BurstIdle /\ SessionIdle /\ BackupIdle /\ ScanIdle /\ CleanupIdle /\ CliIdle /\ DllUpgradeIdle /\ VersionInfoIdle
    /\ RaceIdle
NextBackoff ==
    \/ NetworkRequest
    \/ NetworkRetry
    \/ UninstallRetryRound
    \/ UninstallRetryExit
SpecBackoff == InitBackoff /\ [][NextBackoff]_vars

InitRace ==
    RaceInit /\ RetryIdle /\ AtomicIdle /\ ExtractIdle /\ ConsolidateIdle /\ DownloadIdle /\ InstallIdle /\ DeletionIdle /\ UninstallIdle /\ UpgradeIdle /\ ShutdownIdle /\ RateLimitIdle /\ BurstIdle /\ SessionIdle /\ BackupIdle /\ ScanIdle /\ CleanupIdle /\ CliIdle /\ DllUpgradeIdle /\ VersionInfoIdle /\ BackoffIdle
NextRace ==
    \/ BackupEnter
    \/ BackupCheck
    \/ BackupMove
    \/ ExternalCreate
SpecRace == InitRace /\ [][NextRace]_vars

====
